---- MODULE Spec2Model ----
(***************************************************************************)
(* Permission engine of claude-code-chat (src/src/securityManager.ts).     *)
(*                                                                         *)
(* Strings are modelled as sequences of one-character strings so that the  *)
(* string operations of the source (startsWith, includes, replace,         *)
(* path.resolve, minimatch) are computed, not assumed.                     *)
(***************************************************************************)
EXTENDS Integers, Sequences, FiniteSets, TLC

(***************************************************************************)
(* Bounds of the model.                                                    *)
(***************************************************************************)
MaxTime == 2
MaxGrants == 2
NumCalls == 2

(***************************************************************************)
(* String primitives.                                                      *)
(***************************************************************************)
StartsWith(s, pre) ==
    /\ Len(pre) <= Len(s)
    /\ SubSeq(s, 1, Len(pre)) = pre

Includes(s, sub) ==
    \E i \in 1..(Len(s) - Len(sub) + 1) : SubSeq(s, i, i + Len(sub) - 1) = sub

RECURSIVE SplitFrom(_, _, _)
\* s.split(sep) for a one-character separator, continuing with the segment
\* cur that is being read.
SplitFrom(s, sep, cur) ==
    IF s = <<>> THEN <<cur>>
    ELSE IF Head(s) = sep THEN <<cur>> \o SplitFrom(Tail(s), sep, <<>>)
    ELSE SplitFrom(Tail(s), sep, Append(cur, Head(s)))

Split(s, sep) == SplitFrom(s, sep, <<>>)

RECURSIVE JoinSegs(_)
\* "/" + segments.join("/")
JoinSegs(segs) ==
    IF segs = <<>> THEN <<>>
    ELSE <<"/">> \o Head(segs) \o JoinSegs(Tail(segs))

(***************************************************************************)
(* path.resolve on POSIX: relative inputs are taken from the working       *)
(* directory, empty and "." segments are dropped, ".." pops a segment.     *)
(***************************************************************************)
Cwd == <<"/","w","s">>
HomeDir == <<"/","h","o","m","e","/","u">>

RECURSIVE NormalizeSegs(_, _)
NormalizeSegs(segs, acc) ==
    IF segs = <<>> THEN acc
    ELSE IF Head(segs) = <<>> \/ Head(segs) = <<".">>
         THEN NormalizeSegs(Tail(segs), acc)
    ELSE IF Head(segs) = <<".",".">>
         THEN NormalizeSegs(Tail(segs),
                            IF acc = <<>> THEN acc ELSE SubSeq(acc, 1, Len(acc) - 1))
    ELSE NormalizeSegs(Tail(segs), Append(acc, Head(segs)))

PathResolve(p) ==
    LET abs == IF StartsWith(p, <<"/">>) THEN p ELSE Cwd \o <<"/">> \o p
        segs == NormalizeSegs(Split(abs, "/"), <<>>)
    IN  IF segs = <<>> THEN <<"/">> ELSE JoinSegs(segs)

(***************************************************************************)
(* minimatch(file, pattern) with default options (dot: false): the pattern *)
(* and the file are split on "/", "**" spans zero or more segments that do *)
(* not start with a dot, "*" and "?" match inside one segment.             *)
(***************************************************************************)
GlobStar == <<"*","*">>

HasMagic(seg) == \E i \in 1..Len(seg) : seg[i] \in {"*", "?"}

RECURSIVE WildMatch(_, _)
WildMatch(s, pat) ==
    IF pat = <<>> THEN s = <<>>
    ELSE IF Head(pat) = "*"
         THEN \/ WildMatch(s, Tail(pat))
              \/ s # <<>> /\ WildMatch(Tail(s), pat)
    ELSE IF Head(pat) = "?"
         THEN s # <<>> /\ WildMatch(Tail(s), Tail(pat))
    ELSE s # <<>> /\ Head(s) = Head(pat) /\ WildMatch(Tail(s), Tail(pat))

DotSegment(seg) == seg # <<>> /\ Head(seg) = "."

SegMatch(seg, pat) ==
    IF HasMagic(pat)
    THEN /\ seg # <<>>
         /\ DotSegment(seg) => DotSegment(pat)
         /\ WildMatch(seg, pat)
    ELSE seg = pat

RECURSIVE MatchOne(_, _)
MatchOne(file, pattern) ==
    IF pattern = <<>> THEN file = <<>> \/ file = << <<>> >>
    ELSE IF Head(pattern) = GlobStar
         THEN IF Tail(pattern) = <<>>
              THEN \A i \in 1..Len(file) : ~DotSegment(file[i])
              ELSE \/ MatchOne(file, Tail(pattern))
                   \/ /\ file # <<>>
                      /\ ~DotSegment(Head(file))
                      /\ MatchOne(Tail(file), pattern)
    ELSE /\ file # <<>>
         /\ SegMatch(Head(file), Head(pattern))
         /\ MatchOne(Tail(file), Tail(pattern))

RECURSIVE CollapseSlashes(_)
\* Both strings are split on the regular expression /\/+/ : a run of
\* slashes separates like one slash.
CollapseSlashes(s) ==
    IF Len(s) < 2 THEN s
    ELSE IF Head(s) = "/" /\ s[2] = "/" THEN CollapseSlashes(Tail(s))
    ELSE <<Head(s)>> \o CollapseSlashes(Tail(s))

minimatch(file, pattern) ==
    MatchOne(Split(CollapseSlashes(file), "/"), Split(CollapseSlashes(pattern), "/"))

(***************************************************************************)
(* Types of src/src/types/security.ts.                                     *)
(***************************************************************************)
PermissionType == {"read", "write", "execute"}
PermissionScope == {"once", "session", "workspace", "global"}
SecurityLevel ==
    {"workspace-only", "contextual", "session-override", "workspace-override",
     "danger-mode"}

\* An absent optional field (undefined).  As a string it is the empty
\* string, which the source's truthiness tests treat like undefined.
Undefined == <<>>
NoExpiration == -1
\* The scope of the quick pick's Deny item (null).
NoScope == "null"

(***************************************************************************)
(* The engine's configuration and the request inputs explored.             *)
(***************************************************************************)
WorkspaceRoot == <<"/","w","s">>

SAFE_PATHS == <<
    <<"~","/",".","b","a","s","h","r","c">>,
    <<"~","/",".","b","a","s","h","_","p","r","o","f","i","l","e">>,
    <<"~","/",".","z","s","h","r","c">>,
    <<"~","/",".","p","r","o","f","i","l","e">>,
    <<"~","/",".","*","r","c">>,
    <<"*","*","/","p","a","c","k","a","g","e",".","j","s","o","n">>,
    <<"*","*","/","t","s","c","o","n","f","i","g",".","j","s","o","n">>,
    <<"*","*","/","p","a","c","k","a","g","e","-","l","o","c","k",".","j","s","o","n">>,
    <<"*","*","/","y","a","r","n",".","l","o","c","k">>,
    <<"*","*","/",".","g","i","t","i","g","n","o","r","e">>,
    <<"*","*","/",".","e","n","v",".","e","x","a","m","p","l","e">> >>

\* Request paths: inside the workspace, a sibling directory whose name
\* extends the workspace's, a traversal, a dotfile under another project,
\* a shell rc file under the home directory, and a system file.
PathInWorkspace == <<"/","w","s","/","a",".","t","s">>
PathSibling == <<"/","w","s","2","/",".","e","n","v">>
PathTraversal == <<"/","w","s","/",".",".","/","e","t","c","/","p","w">>
PathEnv == <<"/","p","r","o","j","e","c","t","/",".","e","n","v">>
PathBashrc == <<"~","/",".","b","a","s","h","r","c">>
PathHosts == <<"/","e","t","c","/","h","o","s","t","s">>

Paths == {PathInWorkspace, PathSibling, PathTraversal, PathEnv, PathBashrc, PathHosts}

\* Glob patterns used in the allow and deny lists.
GlobEnv == <<"*","*","/",".","e","n","v">>
GlobProjectDot == <<"/","p","r","o","j","e","c","t","/",".","*">>
GlobEtc == <<"/","e","t","c","/","*">>
GlobHosts == <<"*","*","/","h","o","s","t","s">>

DeniedChoices == { <<>>, <<GlobProjectDot, GlobEnv>> }
AllowedChoices == { <<>>, <<GlobHosts, GlobEtc, GlobEnv>> }
SessionTimeouts == {1}

\* The levels explored: the source compares the level with "workspace-only"
\* and with "danger-mode" only, so "contextual" stands for the other three.
Levels == {"workspace-only", "contextual", "danger-mode"}

\* The requests explored, each with what lstat finds at its path.
Input(filePath, permissionType, lstat) ==
    [request |-> [filePath |-> filePath, permissionType |-> permissionType],
     lstat |-> lstat]

Inputs ==
    { Input(f, "read", "file") : f \in Paths }
    \cup { Input(PathInWorkspace, "read", l) : l \in {"symlink", "directory"} }
    \cup { Input(PathHosts, "read", l) : l \in {"absent", "other"} }
    \cup { Input(PathBashrc, "read", "throws") }

\* What lstat finds at the normalized path; "throws" when the path is never
\* looked up because os.homedir() or path.resolve() threw before.
LstatOutcomes == {"absent", "file", "directory", "symlink", "other", "throws"}

SecuritySettings ==
    [permissionLevel : Levels,
     allowedPaths : AllowedChoices,
     deniedPaths : DeniedChoices,
     auditLog : BOOLEAN,
     sessionTimeout : SessionTimeouts,
     autoGrantSafePaths : BOOLEAN]

(***************************************************************************)
(* validatePath                                                            *)
(***************************************************************************)
SuspiciousChars == {"<", ">", ":", "\"", "|", "?", "*"}

ExpandHome(filePath) ==
    IF StartsWith(filePath, <<"~">>) THEN HomeDir \o Tail(filePath) ELSE filePath

RECURSIVE FirstMatch_Last(_, _, _)
\* A slip: the loop runs on after a match, so the last match is kept.
FirstMatch_Last(patterns, normalizedPath, filePath) ==
    IF patterns = <<>> THEN Undefined
    ELSE LET later == FirstMatch_Last(Tail(patterns), normalizedPath, filePath)
         IN  IF later # Undefined THEN later
             ELSE IF minimatch(normalizedPath, Head(patterns))
                     \/ minimatch(filePath, Head(patterns))
                  THEN Head(patterns)
             ELSE Undefined

RECURSIVE FirstMatch(_, _, _)
\* The first pattern of the list that matches the normalized path or the
\* path as given; Undefined when none does.
FirstMatch(patterns, normalizedPath, filePath) ==
    IF patterns = <<>> THEN Undefined
    ELSE IF minimatch(normalizedPath, Head(patterns)) \/ minimatch(filePath, Head(patterns))
         THEN Head(patterns)
    ELSE FirstMatch(Tail(patterns), normalizedPath, filePath)

PathWarnings(filePath, lstat) ==
    (IF \/ Includes(filePath, <<".",".">>)
        \/ Includes(filePath, <<".","/">>)
        \/ Includes(filePath, <<".","\\">>)
     THEN <<"traversal">> ELSE <<>>)
    \o (IF \E i \in 1..Len(filePath) : filePath[i] \in SuspiciousChars
        THEN <<"suspicious characters">> ELSE <<>>)
    \o (IF lstat = "symlink" THEN <<"symbolic link">>
        ELSE IF lstat = "other" THEN <<"not a regular file or directory">>
        ELSE <<>>)

\* A slip: the receiver and the argument of startsWith exchanged.
inWorkspace_Swapped(normalizedPath, workspaceRoot) ==
    StartsWith(workspaceRoot, normalizedPath)

inWorkspace(normalizedPath, workspaceRoot) == StartsWith(normalizedPath, workspaceRoot)

\* The result of the catch block: whatever was thrown while the path was
\* resolved becomes a warning of a result that is not valid.
ValidationFailed(filePath) ==
    [isValid |-> FALSE,
     normalizedPath |-> filePath,
     exists |-> FALSE,
     type |-> "absent",
     warnings |-> <<"Path validation failed">>,
     inWorkspace |-> FALSE,
     matchesAllowedPattern |-> Undefined,
     matchesDeniedPattern |-> Undefined]

\* A slip: the result is valid whenever something exists at the path.
validatePath_ValidIfExists(filePath, lstat, s) ==
    IF lstat = "throws" THEN ValidationFailed(filePath)
    ELSE
    LET normalizedPath == PathResolve(ExpandHome(filePath))
        warnings == PathWarnings(filePath, lstat)
    IN  [isValid |-> lstat # "absent",
         normalizedPath |-> normalizedPath,
         exists |-> lstat # "absent",
         type |-> lstat,
         warnings |-> warnings,
         inWorkspace |-> inWorkspace(normalizedPath, WorkspaceRoot),
         matchesAllowedPattern |-> FirstMatch(s.allowedPaths, normalizedPath, filePath),
         matchesDeniedPattern |-> FirstMatch(s.deniedPaths, normalizedPath, filePath)]

validatePath(filePath, lstat, s) ==
    IF lstat = "throws" THEN ValidationFailed(filePath)
    ELSE
    LET normalizedPath == PathResolve(ExpandHome(filePath))
        warnings == PathWarnings(filePath, lstat)
    IN  [isValid |-> warnings = <<>>,
         normalizedPath |-> normalizedPath,
         exists |-> lstat # "absent",
         type |-> lstat,
         warnings |-> warnings,
         inWorkspace |-> inWorkspace(normalizedPath, WorkspaceRoot),
         matchesAllowedPattern |-> FirstMatch(s.allowedPaths, normalizedPath, filePath),
         matchesDeniedPattern |-> FirstMatch(s.deniedPaths, normalizedPath, filePath)]

\* validatePath over the request paths, the lstat outcomes and the pattern
\* lists, computed once.
ValidationTable ==
    [f \in Paths |-> [l \in LstatOutcomes |->
        [a \in AllowedChoices |-> [d \in DeniedChoices |->
            validatePath(f, l, [allowedPaths |-> a, deniedPaths |-> d])]]]]

(***************************************************************************)
(* Helper methods of SecurityManager.                                      *)
(***************************************************************************)
RECURSIVE AnyMatch(_, _)
AnyMatch(filePath, patterns) ==
    IF patterns = <<>> THEN FALSE
    ELSE minimatch(filePath, Head(patterns)) \/ AnyMatch(filePath, Tail(patterns))

isSafePath(filePath) == AnyMatch(filePath, SAFE_PATHS)

\* isSafePath over the request paths, computed once.
SafePathTable == [f \in Paths |-> isSafePath(f)]

\* A slip: the key is the path alone.
getPermissionKey_PathOnly(filePath, permissionType) == filePath

getPermissionKey(filePath, permissionType) == filePath \o <<":">> \o <<permissionType>>

RECURSIVE FindStored(_, _, _)
\* stored.find(...): the first record of the array for the path and type,
\* as a sequence of zero or one records.
FindStored(stored, filePath, permissionType) ==
    IF stored = <<>> THEN <<>>
    ELSE IF Head(stored).filePath = filePath /\ Head(stored).permissionType = permissionType
         THEN <<Head(stored)>>
    ELSE FindStored(Tail(stored), filePath, permissionType)

findExistingPermission(session, stored, filePath, permissionType) ==
    LET key == getPermissionKey(filePath, permissionType)
    IN  IF key \in DOMAIN session THEN <<session[key]>>
        ELSE FindStored(stored, filePath, permissionType)

isPermissionExpired(permission, time) ==
    IF permission.expiration = NoExpiration THEN FALSE
    ELSE time > permission.expiration

\* A slip: the expiration is never set.
createPermission_NoExpiration(r, scope, autoGranted, s, time) ==
    [filePath |-> r.filePath,
     permissionType |-> r.permissionType,
     scope |-> scope,
     expiration |-> NoExpiration,
     autoGranted |-> autoGranted]

createPermission(r, scope, autoGranted, s, time) ==
    [filePath |-> r.filePath,
     permissionType |-> r.permissionType,
     scope |-> scope,
     expiration |-> IF scope = "session" THEN time + s.sessionTimeout ELSE NoExpiration,
     autoGranted |-> autoGranted]

storePermission(stored, permission) == Append(stored, permission)

\* A slip: the session grant goes nowhere.
setSessionPermission_Dropped(session, permission) == session

setSessionPermission(session, permission) ==
    (getPermissionKey(permission.filePath, permission.permissionType) :> permission)
        @@ session

EmptyMap == [k \in {} |-> {}]

RECURSIVE FilterSeq(_, _)
FilterSeq(seq, time) ==
    IF seq = <<>> THEN <<>>
    ELSE (IF isPermissionExpired(Head(seq), time) THEN <<>> ELSE <<Head(seq)>>)
         \o FilterSeq(Tail(seq), time)

RECURSIVE MapValues(_)
\* Array.from(map.values()).  The model does not keep the order in which
\* the keys were inserted: the values come in an order of its own.
MapValues(session) ==
    IF DOMAIN session = {} THEN <<>>
    ELSE LET k == CHOOSE j \in DOMAIN session : TRUE
         IN  <<session[k]>> \o MapValues([j \in DOMAIN session \ {k} |-> session[j]])

\* A slip: the filter on expiration left out.
getActivePermissions_Unfiltered(session, stored, time) ==
    MapValues(session) \o stored

getActivePermissions(session, stored, time) ==
    FilterSeq(MapValues(session) \o stored, time)

(***************************************************************************)
(* MCPSyncManager (src/src/mcpSync.ts): data and pure parts.  Left out are *)
(* lastSyncTime and serverStates, which the class writes and nothing but   *)
(* the lastSeen field of getAllServers' records reads.                     *)
(***************************************************************************)
ServerNames == {"a", "b"}

\* JSON null where a server definition should be.
NullJson == "null"

\* One entry of mcpServers: its key and its value's command.
ServerDef(name, command) == [name |-> name, command |-> command]

\* What ~/.claude/claude_config.json can be: missing, not JSON, the JSON
\* value null, or an object with or without the key mcpServers (entries in
\* the order of Object.entries) and with other keys.
CliFile(kind, hasServers, mcpServers, other) ==
    [kind |-> kind, hasServers |-> hasServers, mcpServers |-> mcpServers, other |-> other]

FileMissing == CliFile("missing", FALSE, <<>>, 0)
FileUnparseable == CliFile("unparseable", FALSE, <<>>, 0)
FileJsonNull == CliFile("null", FALSE, <<>>, 0)
FileNoServers == CliFile("object", FALSE, <<>>, 0)
FileA == CliFile("object", TRUE, <<ServerDef("a", "c1")>>, 0)
FileAB == CliFile("object", TRUE, <<ServerDef("a", "c1"), ServerDef("b", "c1")>>, 0)
FileABOther == CliFile("object", TRUE, <<ServerDef("a", "c1"), ServerDef("b", "c1")>>, 1)
FileNullEntry == CliFile("object", TRUE, <<ServerDef("a", NullJson)>>, 0)

CliFiles == {FileMissing, FileUnparseable, FileJsonNull, FileNoServers, FileA, FileAB,
             FileABOther, FileNullEntry}

NullConfig == [isNull |-> TRUE, hasServers |-> FALSE, mcpServers |-> <<>>, other |-> 0]

\* Lines 51-75: null for a missing file and for whatever the try block
\* throws, JSON.parse's SyntaxError and the TypeError of reading
\* mcpServers of null included.
readCLIConfig(file) ==
    IF file.kind \in {"missing", "unparseable", "null"}
    THEN NullConfig
    ELSE [isNull |-> FALSE, hasServers |-> file.hasServers,
          mcpServers |-> file.mcpServers, other |-> file.other]

\* The digest of the serialized mcpServers alone; '' is no digest.
EmptyHash == <<>>
calculateConfigHash(config) == <<"md5", config.mcpServers>>

\* this.syncState = null
NullSyncState ==
    [version |-> "none", activeCliServers |-> <<>>, syncAll |-> FALSE,
     cliConfigHash |-> EmptyHash]

IsNullState(state) == state.version = "none"

\* initializeSyncState's object.
DefaultSyncState ==
    [version |-> "1.0.7", activeCliServers |-> <<>>, syncAll |-> FALSE,
     cliConfigHash |-> EmptyHash]

\* Array.prototype.includes
ArrayIncludes(array, x) == \E i \in DOMAIN array : array[i] = x

getServerActiveState(state, serverName) ==
    IF IsNullState(state) THEN FALSE
    ELSE IF state.syncAll THEN TRUE
    ELSE ArrayIncludes(state.activeCliServers, serverName)

\* A slip: the name is pushed without the includes test.
ToggledState_Pushed(state, serverName, isActive) ==
    [state EXCEPT
        !.activeCliServers =
            IF isActive THEN Append(state.activeCliServers, serverName)
            ELSE SelectSeq(state.activeCliServers, LAMBDA name : name # serverName)]

\* toggleServer, lines 153-169.
ToggledState(state, serverName, isActive) ==
    [state EXCEPT
        !.activeCliServers =
            IF isActive
            THEN (IF ArrayIncludes(state.activeCliServers, serverName)
                  THEN state.activeCliServers
                  ELSE Append(state.activeCliServers, serverName))
            ELSE SelectSeq(state.activeCliServers, LAMBDA name : name # serverName)]

\* toggleServer, lines 171-175: the first entry of that name.
\* A slip: a name that is not in the list gets an entry of its own.
ToggledServers_Added(servers, serverName, isActive) ==
    IF \E i \in DOMAIN servers : servers[i].name = serverName
    THEN [i \in DOMAIN servers |->
             IF servers[i].name = serverName
             THEN [servers[i] EXCEPT !.isActive = isActive] ELSE servers[i]]
    ELSE Append(servers, [name |-> serverName, command |-> "c1", source |-> "cli",
                          isActive |-> isActive])

ToggledServers(servers, serverName, isActive) ==
    [i \in DOMAIN servers |->
        IF servers[i].name = serverName
           /\ \A j \in 1..(i - 1) : servers[j].name # serverName
        THEN [servers[i] EXCEPT !.isActive = isActive]
        ELSE servers[i]]

\* setSyncAll, lines 191-211.
SyncAllState(state, servers, enabled) ==
    IF enabled
    THEN [state EXCEPT
            !.syncAll = TRUE,
            !.activeCliServers = [i \in DOMAIN servers |-> servers[i].name]]
    ELSE [state EXCEPT !.syncAll = FALSE]

SyncAllServers(state, servers, enabled) ==
    [i \in DOMAIN servers |->
        [servers[i] EXCEPT
            !.isActive = enabled \/ ArrayIncludes(state.activeCliServers, servers[i].name)]]

\* refreshCLIServers up to its save, lines 88-123, on the file it reads.
\* mapped: line 107 built new entry objects; saves: line 122 is reached.
RefreshOutcome(result, state, servers, mapped, saves) ==
    [result |-> result, syncState |-> state, cliServers |-> servers,
     mapped |-> mapped, saves |-> saves]

Refreshed(file, state, servers) ==
    LET config == readCLIConfig(file)
        newHash == calculateConfigHash(config)
    IN  IF config.isNull \/ ~config.hasServers
        THEN RefreshOutcome("ok", state, <<>>, FALSE, FALSE)
        ELSE IF \E i \in DOMAIN config.mcpServers :
                    config.mcpServers[i].command = NullJson
        THEN RefreshOutcome("TypeError", state, servers, FALSE, FALSE)
        ELSE RefreshOutcome("ok",
                 IF IsNullState(state) THEN state
                 ELSE [state EXCEPT !.cliConfigHash = newHash],
                 [i \in DOMAIN config.mcpServers |->
                     [name |-> config.mcpServers[i].name,
                      command |-> config.mcpServers[i].command,
                      source |-> "cli",
                      isActive |-> getServerActiveState(state, config.mcpServers[i].name)]],
                 TRUE, ~IsNullState(state))

\* Lines 261-266: no source is read.
loadExtensionServers(file) == <<>>

hasConflictWithExtension(extension, serverName) ==
    \E i \in DOMAIN extension : extension[i].name = serverName

RECURSIVE AddExtensionServers(_, _)
AddExtensionServers(servers, extension) ==
    IF extension = <<>> THEN servers
    ELSE AddExtensionServers(
             IF \E i \in DOMAIN servers : servers[i].name = Head(extension).name
             THEN servers
             ELSE Append(servers, [name |-> Head(extension).name,
                                   isActive |-> Head(extension).isActive,
                                   source |-> "extension",
                                   hasConflict |-> FALSE]),
             Tail(extension))

\* Lines 220-249.
getAllServers(cli, extension) ==
    AddExtensionServers(
        [i \in DOMAIN cli |->
            [name |-> cli[i].name, isActive |-> cli[i].isActive, source |-> "cli",
             hasConflict |-> hasConflictWithExtension(extension, cli[i].name)]],
        extension)

(***************************************************************************)
(* HybridCliManager, src/unnamed/part_001: the pure part.  Command names   *)
(* are sequences of characters.                                            *)
(***************************************************************************)
CommandInfo(name, hasUIHandler, requiresCLI) ==
    [name |-> name, hasUIHandler |-> hasUIHandler, requiresCLI |-> requiresCLI]

\* initializeKnownCommands, lines 75-106.
knownCommands ==
    {CommandInfo(<<"b","u","g">>, TRUE, TRUE),
     CommandInfo(<<"c","l","e","a","r">>, TRUE, TRUE),
     CommandInfo(<<"c","o","m","p","a","c","t">>, TRUE, TRUE),
     CommandInfo(<<"c","o","n","f","i","g">>, TRUE, TRUE),
     CommandInfo(<<"c","o","s","t">>, TRUE, TRUE),
     CommandInfo(<<"d","o","c","t","o","r">>, TRUE, TRUE),
     CommandInfo(<<"h","e","l","p">>, TRUE, TRUE),
     CommandInfo(<<"i","n","i","t">>, TRUE, TRUE),
     CommandInfo(<<"l","o","g","i","n">>, TRUE, TRUE),
     CommandInfo(<<"l","o","g","o","u","t">>, TRUE, TRUE),
     CommandInfo(<<"m","c","p">>, TRUE, TRUE),
     CommandInfo(<<"m","e","m","o","r","y">>, TRUE, TRUE),
     CommandInfo(<<"m","o","d","e","l">>, TRUE, TRUE),
     CommandInfo(<<"p","e","r","m","i","s","s","i","o","n","s">>, TRUE, TRUE),
     CommandInfo(<<"p","r","_","c","o","m","m","e","n","t","s">>, TRUE, TRUE),
     CommandInfo(<<"r","e","v","i","e","w">>, TRUE, TRUE),
     CommandInfo(<<"s","t","a","t","u","s">>, TRUE, TRUE),
     CommandInfo(<<"t","e","r","m","i","n","a","l","-","s","e","t","u","p">>, TRUE, TRUE),
     CommandInfo(<<"v","i","m">>, TRUE, TRUE),
     CommandInfo(<<"a","g","e","n","t","s">>, FALSE, TRUE),
     CommandInfo(<<"a","d","d","-","d","i","r">>, FALSE, TRUE)}

KnownNames == {cmd.name : cmd \in knownCommands}

KnownCommand(commandName) == CHOOSE cmd \in knownCommands : cmd.name = commandName

\* The output of "claude --help" as the two patterns of
\* parseCommandsFromHelp see it.  A line is a row of tokens: a token is a
\* run of word characters (\w+), with whether a slash stands right before
\* it and whether white space follows it.  starts: the line begins with
\* white space or follows an empty line, so that ^\s+ matches before its
\* first token.
Token(slash, word, spaceAfter) == [slash |-> slash, word |-> word, spaceAfter |-> spaceAfter]

HelpLine(starts, tokens) == [starts |-> starts, tokens |-> tokens]

LineUsage == HelpLine(FALSE, <<Token(FALSE, <<"U","s","a","g","e">>, FALSE)>>)
LineConfig == HelpLine(TRUE, <<Token(FALSE, <<"c","o","n","f","i","g">>, TRUE)>>)
LineHelp == HelpLine(TRUE, <<Token(FALSE, <<"h","e","l","p">>, TRUE)>>)
LineFoo == HelpLine(TRUE, <<Token(FALSE, <<"f","o","o">>, TRUE)>>)
LineShort == HelpLine(TRUE, <<Token(FALSE, <<"x">>, TRUE)>>)
LineSlashes == HelpLine(FALSE, <<Token(FALSE, <<"T","y","p","e">>, TRUE),
                                 Token(TRUE, <<"h","e","l","p">>, TRUE),
                                 Token(TRUE, <<"c","l","e","a","r">>, FALSE)>>)

HelpOutputs ==
    { <<>>,
      <<LineUsage, LineConfig, LineHelp>>,
      <<LineUsage, LineConfig, LineHelp, LineFoo>>,
      <<LineUsage, LineShort, LineFoo>>,
      <<LineSlashes, LineConfig>> }

\* Line 279.
falsePositives == {<<"h","e","l","p">>, <<"v","e","r","s","i","o","n">>, <<"u","s","a","g","e">>, <<"o","p","t","i","o","n","s">>, <<"e","x","a","m","p","l","e","s">>}

\* Lines 262-286: the names after a slash, the first words of the lines that
\* begin with white space, those of one character left out, then the false
\* positives removed.
parseCommandsFromHelp(output) ==
    LET lines == {output[n] : n \in DOMAIN output}
        slashed == UNION {{line.tokens[i].word : i \in {j \in DOMAIN line.tokens :
                                                            line.tokens[j].slash}} :
                          line \in lines}
        indented == {line.tokens[1].word :
                        line \in {l \in lines : /\ l.starts
                                                /\ l.tokens # <<>>
                                                /\ ~l.tokens[1].slash
                                                /\ l.tokens[1].spaceAfter}}
    IN  {w \in slashed \cup indented : Len(w) > 1} \ falsePositives

NullCapabilities ==
    [isNull |-> TRUE, availableCommands |-> {}, recent |-> FALSE, isValid |-> FALSE]

CliInstalls == {"absent", "broken", "ok"}

\* detectCLICapabilities, lines 175-212: what it returns and what it leaves
\* in this.cliCapabilities.  recent: less than CACHE_TTL has passed since
\* lastDetected.  "absent": resolveClaudePath finds no executable; "broken":
\* running it fails or times out, and the catch block answers null.
detectCLICapabilities(cache, install, output) ==
    IF ~cache.isNull /\ cache.recent /\ cache.isValid
    THEN [capabilities |-> cache, cache |-> cache]
    ELSE IF install # "ok"
    THEN [capabilities |-> NullCapabilities, cache |-> cache]
    ELSE LET capabilities == [isNull |-> FALSE,
                              availableCommands |-> parseCommandsFromHelp(output),
                              recent |-> TRUE, isValid |-> TRUE]
         IN  [capabilities |-> capabilities, cache |-> capabilities]

\* routeCommand after its detection, lines 300-346.
RouteHandler(commandName, capabilities) ==
    IF commandName \in KnownNames
    THEN IF /\ KnownCommand(commandName).requiresCLI
            /\ ~capabilities.isNull
            /\ commandName \notin capabilities.availableCommands
         THEN "error"
         ELSE IF KnownCommand(commandName).hasUIHandler THEN "ui" ELSE "terminal"
    ELSE IF ~capabilities.isNull /\ commandName \in capabilities.availableCommands
         THEN "terminal"
    ELSE "error"

\* The commands asked for: known ones with and without a UI handler, one
\* that only the CLI offers, and one that nobody knows.
CommandNames == {<<"h","e","l","p">>, <<"c","o","n","f","i","g">>, <<"c","l","e","a","r">>, <<"a","g","e","n","t","s">>, <<"f","o","o">>, <<"z","z">>}

(***************************************************************************)
(* State.                                                                  *)
(***************************************************************************)
VARIABLES
    settings,            \* this.settings
    sessionPermissions,  \* this.sessionPermissions: key -> permission
    workspaceState,      \* the array persisted under STORAGE_KEY_PERMISSIONS
    now,                 \* the clock read by new Date() and Date.now()
    appended,            \* the lines the latest step appended to the output channel
    lastCall,            \* the synchronous method the latest step ran, if any,
                         \* with the level updateSettings was given and
                         \* the numbers of grants the method removed from
                         \* the session map and from the durable store, and
                         \* whether a clearing method ran right after itself
    pc,                  \* where each requestPermission call stands
    request,             \* its PermissionRequest
    validation,          \* its PathValidationResult
    outcome,             \* what the call returned or threw
    prompted             \* whether the call has shown the quick pick

VARIABLES
    disposed             \* whether dispose() has run on this SecurityManager

\* MCPSyncManager (src/src/mcpSync.ts) and what it reads and writes.
VARIABLES
    cliFile,             \* ~/.claude/claude_config.json
    extensionFile,       \* the extension's own server definitions
    autoRefresh,         \* the setting claudeCodeChat.mcp.autoRefresh
    storedSyncState,     \* workspaceState's value under 'mcpSyncState', as get returns it
    diskSyncState,       \* the value the host has written to disk
    pendingUpdates,      \* workspaceState.update calls not yet settled, oldest first
    syncState,           \* this.syncState
    cliServers,          \* this.cliServers
    extensionServers,    \* this.extensionServers
    refreshTimer,        \* whether this.refreshTimer is set
    task,                \* the MCPSyncManager call each caller has in flight, with
                         \* whether one of its saves was refused by the storage
    lastStep,            \* what the latest step of an MCPSyncManager call did
    beforeEnable,        \* the entries as setSyncAll(true) found them, while no
                         \* other call but setSyncAll(false) has followed it
    lastToggle           \* the toggleServer call that returned last, while the
                         \* user has made no other call since and the CLI's file
                         \* is as it was, and whether the host restarted since

\* HybridCliManager (src/unnamed/part_001) and the CLI it looks at.
VARIABLES
    cliInstall,          \* what the host finds of the claude executable
    helpOutput,          \* what "claude --help" prints, line by line
    cliCapabilities,     \* this.cliCapabilities
    routed               \* what the latest routeCommand call returned, and
                         \* whether its detection gave capabilities

routerVars == <<cliInstall, helpOutput, cliCapabilities, routed>>

reconcilerVars == <<cliFile, extensionFile, autoRefresh, storedSyncState, diskSyncState,
                    pendingUpdates,
                    syncState, cliServers, extensionServers, refreshTimer, task,
                    lastStep, beforeEnable, lastToggle>>

securityVars == <<settings, sessionPermissions, workspaceState, now, appended, lastCall,
                  pc, request, validation, outcome, prompted, disposed>>

vars == <<securityVars, reconcilerVars, routerVars>>

callVars == <<pc, request, validation, outcome, prompted>>

Calls == 1..NumCalls

NoCall == [method |-> "none"]
NoRequest == [filePath |-> Undefined, permissionType |-> "read"]
NoValidation == [isValid |-> FALSE, normalizedPath |-> Undefined, exists |-> FALSE,
                 type |-> "absent", warnings |-> <<>>, inWorkspace |-> FALSE,
                 matchesAllowedPattern |-> Undefined, matchesDeniedPattern |-> Undefined]

\* No call has returned or thrown without its caller having resumed.  The
\* caller resumes in the same turn of the event loop, before any timer,
\* user action or other call runs.
NoneDone == \A c \in Calls : pc[c] # "done"

InitCalls ==
    /\ pc = [c \in Calls |-> "idle"]
    /\ request = [c \in Calls |-> NoRequest]
    /\ validation = [c \in Calls |-> NoValidation]
    /\ outcome = [c \in Calls |-> "none"]
    /\ prompted = [c \in Calls |-> FALSE]

Callers == {"ui", "timer"}

Task(op, serverName, flag) ==
    [op |-> op, serverName |-> serverName, flag |-> flag, stage |-> "idle",
     result |-> "none", saveFailed |-> FALSE]

IdleTask == Task("none", "", FALSE)

NoStep == [caller |-> "none", op |-> "none", mapped |-> FALSE, changed |-> FALSE]

\* No setSyncAll(true) to look back at.
NoEntries == [known |-> FALSE, servers |-> <<>>]

\* No toggleServer call to look back at.
NoToggle == [known |-> FALSE, serverName |-> "", flag |-> FALSE, restarted |-> FALSE]

ReconcilerAtRest ==
    /\ storedSyncState = NullSyncState
    /\ diskSyncState = NullSyncState
    /\ pendingUpdates = <<>>
    /\ syncState = NullSyncState
    /\ cliServers = <<>>
    /\ extensionServers = <<>>
    /\ refreshTimer = FALSE
    /\ task = [c \in Callers |-> IdleTask]
    /\ lastStep = NoStep
    /\ beforeEnable = NoEntries
    /\ lastToggle = NoToggle

NoRoute == [commandName |-> <<>>, handler |-> "none", detected |-> FALSE]

\* No CLI installed, nothing detected, nothing routed.
RouterAtRest ==
    /\ cliInstall = "absent"
    /\ helpOutput = <<>>
    /\ cliCapabilities = NullCapabilities
    /\ routed = NoRoute

\* The SecurityManager's settings while the reconciler is looked at.
RestSettings ==
    [permissionLevel |-> "contextual", allowedPaths |-> <<>>, deniedPaths |-> <<>>,
     auditLog |-> TRUE, sessionTimeout |-> 1, autoGrantSafePaths |-> TRUE]

Init ==
    /\ settings \in SecuritySettings
    /\ sessionPermissions = EmptyMap
    /\ workspaceState = <<>>
    /\ now = 0
    /\ appended = <<>>
    /\ lastCall = NoCall
    /\ InitCalls
    /\ disposed = FALSE
    /\ cliFile = FileMissing
    /\ extensionFile = <<>>
    /\ autoRefresh = FALSE
    /\ ReconcilerAtRest
    /\ RouterAtRest

(***************************************************************************)
(* logAuditEntry: nothing is written when the auditLog setting is off.     *)
(***************************************************************************)
\* A slip: the auditLog setting is not consulted.
AuditLines_Always(s, entry) == <<entry>>

AuditLines(s, entry) == IF s.auditLog THEN <<entry>> ELSE <<>>

AuditEntry(granted, userResponse, detail) ==
    [granted |-> granted, userResponse |-> userResponse, detail |-> detail]

(***************************************************************************)
(* requestPermission from the resolution of validatePath up to its return, *)
(* its throw, or the interactive dialog: the rule that applies, the grant  *)
(* stores it leaves and the audit entry it hands to logAuditEntry.         *)
(***************************************************************************)
Decided(result, session, stored, entry) ==
    [next |-> "done", outcome |-> result, session |-> session, stored |-> stored,
     entry |-> entry]

\* Lines 165-166: no rule settled the request.
DecideInteractive(r, v, s, session, stored, time) ==
    [next |-> "dialog", outcome |-> "none", session |-> session, stored |-> stored,
     entry |-> AuditEntry(FALSE, "", Undefined)]

\* Lines 140-163.
DecideDangerMode(r, v, s, session, stored, time) ==
    IF s.permissionLevel = "danger-mode"
    THEN Decided("true",
                 setSessionPermission(session, createPermission(r, "session", TRUE, s, time)),
                 stored,
                 AuditEntry(TRUE, "auto-granted (danger mode)", Undefined))
    ELSE DecideInteractive(r, v, s, session, stored, time)

\* A slip: the safe-path grant is stored like the allow-pattern grant.
DecideSafePath_Stored(r, v, s, session, stored, time) ==
    IF s.autoGrantSafePaths /\ SafePathTable[r.filePath]
    THEN Decided("true", session,
                 storePermission(stored, createPermission(r, "session", TRUE, s, time)),
                 AuditEntry(TRUE, "auto-granted (safe path)", Undefined))
    ELSE DecideDangerMode(r, v, s, session, stored, time)

\* Lines 130-138.
DecideSafePath(r, v, s, session, stored, time) ==
    IF s.autoGrantSafePaths /\ SafePathTable[r.filePath]
    THEN Decided("true",
                 setSessionPermission(session, createPermission(r, "session", TRUE, s, time)),
                 stored,
                 AuditEntry(TRUE, "auto-granted (safe path)", Undefined))
    ELSE DecideDangerMode(r, v, s, session, stored, time)

\* Lines 120-128.
DecideAllowedPattern(r, v, s, session, stored, time) ==
    IF v.matchesAllowedPattern # Undefined
    THEN Decided("true", session,
                 storePermission(stored, createPermission(r, "workspace", FALSE, s, time)),
                 AuditEntry(TRUE, "auto-granted (allowed pattern)", v.matchesAllowedPattern))
    ELSE DecideSafePath(r, v, s, session, stored, time)

\* Lines 111-118.
DecideExisting(r, v, s, session, stored, time) ==
    LET existing == findExistingPermission(session, stored, r.filePath, r.permissionType)
    IN  IF existing # <<>> /\ ~isPermissionExpired(existing[1], time)
        THEN Decided("true", session, stored,
                     AuditEntry(TRUE, "auto-granted (existing permission)", Undefined))
        ELSE DecideAllowedPattern(r, v, s, session, stored, time)

\* Lines 101-109.
DecideDenied(r, v, s, session, stored, time) ==
    IF v.matchesDeniedPattern # Undefined
    THEN Decided("ACCESS_DENIED", session, stored,
                 AuditEntry(FALSE, "error: Access denied: Path matches denied pattern",
                            v.matchesDeniedPattern))
    ELSE DecideExisting(r, v, s, session, stored, time)

\* Lines 91-99.
DecideLevel(r, v, s, session, stored, time) ==
    IF s.permissionLevel = "workspace-only"
    THEN Decided("ACCESS_DENIED", session, stored,
                 AuditEntry(FALSE,
                     "error: Access denied: Security level is set to workspace-only",
                     Undefined))
    ELSE DecideDenied(r, v, s, session, stored, time)

\* Lines 83-89.
DecideWorkspace(r, v, s, session, stored, time) ==
    IF v.inWorkspace
    THEN Decided("true", session, stored,
                 AuditEntry(TRUE, "auto-granted (workspace)", Undefined))
    ELSE DecideLevel(r, v, s, session, stored, time)

\* A slip: the validation result's isValid is not consulted.
Decision_Unvalidated(r, v, s, session, stored, time) ==
    DecideWorkspace(r, v, s, session, stored, time)

\* Lines 72-81, with the catch block's audit entry for the throw.
Decision(r, v, s, session, stored, time) ==
    IF ~v.isValid
    THEN Decided("INVALID_PATH", session, stored,
                 AuditEntry(FALSE, "error: Invalid path", v.warnings))
    ELSE DecideWorkspace(r, v, s, session, stored, time)

\* The items of the quick pick, and its dismissal without a choice.
DialogChoices == {"once", "session", "workspace", "deny", "dismiss"}

\* A slip: only a dismissed quick pick counts as a refusal, so the Deny item
\* goes on as a grant.
showPermissionDialog_DenyGranted(choice) ==
    IF choice = "dismiss"
    THEN [granted |-> FALSE, scope |-> NoScope]
    ELSE [granted |-> TRUE, scope |-> IF choice = "deny" THEN NoScope ELSE choice]

showPermissionDialog(choice) ==
    IF choice \in {"deny", "dismiss"}
    THEN [granted |-> FALSE, scope |-> NoScope]
    ELSE [granted |-> TRUE, scope |-> choice]

\* A slip: every granted scope is handed to storePermission.
AfterDialog_AllStored(r, response, s, session, stored, time) ==
    LET permission == createPermission(r, response.scope, FALSE, s, time)
        grant == response.granted /\ response.scope # NoScope
    IN  [outcome |-> IF response.granted THEN "true" ELSE "false",
         session |-> session,
         stored |-> IF grant THEN storePermission(stored, permission) ELSE stored,
         entry |-> IF response.granted
                   THEN AuditEntry(TRUE, "granted", <<response.scope>>)
                   ELSE AuditEntry(FALSE, "denied by user", Undefined)]

\* requestPermission after the dialog resolved (lines 167-181).
AfterDialog(r, response, s, session, stored, time) ==
    LET permission == createPermission(r, response.scope, FALSE, s, time)
        grant == response.granted /\ response.scope # NoScope
    IN  [outcome |-> IF response.granted THEN "true" ELSE "false",
         session |-> IF grant /\ response.scope = "session"
                     THEN setSessionPermission(session, permission) ELSE session,
         stored |-> IF grant /\ response.scope # "session"
                    THEN storePermission(stored, permission) ELSE stored,
         entry |-> IF response.granted
                   THEN AuditEntry(TRUE, "granted", <<response.scope>>)
                   ELSE AuditEntry(FALSE, "denied by user", Undefined)]

(***************************************************************************)
(* Actions.                                                                *)
(***************************************************************************)
GrantCount(session, stored) == Cardinality(DOMAIN session) + Len(stored)

\* A call of requestPermission, from the call to its return, its throw or
\* the quick pick.  Before lstat answers the call reads no mutable state,
\* and from there to the quick pick it runs without yielding to a timer or
\* to another caller, so the step is taken when lstat answers.
RequestDecide(c, r, lstat) ==
    /\ NoneDone
    /\ pc[c] = "idle"
    /\ \E v \in {ValidationTable[r.filePath][lstat]
                               [settings.allowedPaths][settings.deniedPaths]} :
       \E d \in {Decision(r, v, settings, sessionPermissions, workspaceState, now)} :
           /\ GrantCount(d.session, d.stored) <= MaxGrants
           /\ request' = [request EXCEPT ![c] = r]
           /\ validation' = [validation EXCEPT ![c] = v]
           /\ pc' = [pc EXCEPT ![c] = d.next]
           /\ outcome' = [outcome EXCEPT ![c] = d.outcome]
           /\ sessionPermissions' = d.session
           /\ workspaceState' = d.stored
           /\ prompted' = [prompted EXCEPT ![c] = (d.next = "dialog")]
           /\ appended' = IF d.next = "done" THEN AuditLines(settings, d.entry) ELSE <<>>
    /\ lastCall' = NoCall
    /\ UNCHANGED <<settings, now>>
    /\ UNCHANGED <<disposed, reconcilerVars, routerVars>>

\* The user answers the quick pick, or dismisses it.
DialogAnswer(c, choice) ==
    /\ NoneDone
    /\ pc[c] = "dialog"
    /\ \E a \in {AfterDialog(request[c], showPermissionDialog(choice), settings,
                             sessionPermissions, workspaceState, now)} :
           /\ GrantCount(a.session, a.stored) <= MaxGrants
           /\ outcome' = [outcome EXCEPT ![c] = a.outcome]
           /\ sessionPermissions' = a.session
           /\ workspaceState' = a.stored
           /\ appended' = AuditLines(settings, a.entry)
    /\ pc' = [pc EXCEPT ![c] = "done"]
    /\ lastCall' = NoCall
    /\ UNCHANGED <<settings, now, request, validation, prompted>>
    /\ UNCHANGED <<disposed, reconcilerVars, routerVars>>

\* The quick pick fails: the catch block logs and throws UNSAFE_OPERATION.
DialogFail(c) ==
    /\ NoneDone
    /\ pc[c] = "dialog"
    /\ appended' = AuditLines(settings, AuditEntry(FALSE, "error: Unknown error", Undefined))
    /\ outcome' = [outcome EXCEPT ![c] = "UNSAFE_OPERATION"]
    /\ pc' = [pc EXCEPT ![c] = "done"]
    /\ lastCall' = NoCall
    /\ UNCHANGED <<settings, sessionPermissions, workspaceState, now, request,
                   validation, prompted>>
    /\ UNCHANGED <<disposed, reconcilerVars, routerVars>>

\* The caller resumes with the result; the call's locals are gone.
Return(c) ==
    /\ pc[c] = "done"
    /\ pc' = [pc EXCEPT ![c] = "idle"]
    /\ request' = [request EXCEPT ![c] = NoRequest]
    /\ validation' = [validation EXCEPT ![c] = NoValidation]
    /\ outcome' = [outcome EXCEPT ![c] = "none"]
    /\ prompted' = [prompted EXCEPT ![c] = FALSE]
    /\ appended' = <<>>
    /\ lastCall' = NoCall
    /\ UNCHANGED <<settings, sessionPermissions, workspaceState, now>>
    /\ UNCHANGED <<disposed, reconcilerVars, routerVars>>

Tick ==
    /\ NoneDone
    /\ now < MaxTime
    /\ now' = now + 1
    /\ appended' = <<>>
    /\ lastCall' = NoCall
    /\ UNCHANGED <<settings, sessionPermissions, workspaceState, callVars>>
    /\ UNCHANGED <<disposed, reconcilerVars, routerVars>>

\* A slip: the sweep empties the session map.
cleanupExpiredPermissions_AllSession ==
    /\ NoneDone
    /\ sessionPermissions' =
           EmptyMap
    /\ workspaceState' = FilterSeq(workspaceState, now)
    /\ appended' = <<>>
    /\ lastCall' = [method |-> "cleanupExpiredPermissions",
                    removed |-> <<Cardinality(DOMAIN sessionPermissions)
                                    - Cardinality(DOMAIN sessionPermissions'),
                                  Len(workspaceState) - Len(workspaceState')>>]
    /\ UNCHANGED <<settings, now, callVars>>
    /\ UNCHANGED <<disposed, reconcilerVars, routerVars>>

\* The hourly timer.
cleanupExpiredPermissions ==
    /\ NoneDone
    /\ sessionPermissions' =
           [k \in {j \in DOMAIN sessionPermissions :
                       ~isPermissionExpired(sessionPermissions[j], now)}
               |-> sessionPermissions[k]]
    /\ workspaceState' = FilterSeq(workspaceState, now)
    /\ appended' = <<>>
    /\ lastCall' = [method |-> "cleanupExpiredPermissions",
                    removed |-> <<Cardinality(DOMAIN sessionPermissions)
                                    - Cardinality(DOMAIN sessionPermissions'),
                                  Len(workspaceState) - Len(workspaceState')>>]
    /\ UNCHANGED <<settings, now, callVars>>
    /\ UNCHANGED <<disposed, reconcilerVars, routerVars>>

clearSessionPermissions ==
    /\ NoneDone
    /\ sessionPermissions' = EmptyMap
    /\ appended' = AuditLines(settings,
                       AuditEntry(FALSE, "none", <<"Session permissions cleared">>))
    /\ lastCall' = [method |-> "clearSessionPermissions",
                    repeated |-> lastCall.method = "clearSessionPermissions"]
    /\ UNCHANGED <<settings, workspaceState, now, callVars>>
    /\ UNCHANGED <<disposed, reconcilerVars, routerVars>>

\* A slip: the durable store loses its oldest grant only.
clearAllPermissions_DropsOldest ==
    /\ NoneDone
    /\ sessionPermissions' = EmptyMap
    /\ workspaceState' = IF workspaceState = <<>> THEN <<>> ELSE Tail(workspaceState)
    /\ appended' = AuditLines(settings,
                       AuditEntry(FALSE, "none", <<"All permissions cleared">>))
    /\ lastCall' = [method |-> "clearAllPermissions",
                    repeated |-> lastCall.method = "clearAllPermissions"]
    /\ UNCHANGED <<settings, now, callVars>>
    /\ UNCHANGED <<disposed, reconcilerVars, routerVars>>

clearAllPermissions ==
    /\ NoneDone
    /\ sessionPermissions' = EmptyMap
    /\ workspaceState' = <<>>
    /\ appended' = AuditLines(settings,
                       AuditEntry(FALSE, "none", <<"All permissions cleared">>))
    /\ lastCall' = [method |-> "clearAllPermissions",
                    repeated |-> lastCall.method = "clearAllPermissions"]
    /\ UNCHANGED <<settings, now, callVars>>
    /\ UNCHANGED <<disposed, reconcilerVars, routerVars>>

\* A caller reads the active grants.
getActivePermissionsCall ==
    /\ NoneDone
    /\ appended' = <<>>
    /\ lastCall' = [method |-> "getActivePermissions",
                    result |-> getActivePermissions(sessionPermissions,
                                                    workspaceState, now)]
    /\ UNCHANGED <<settings, sessionPermissions, workspaceState, now, callVars>>
    /\ UNCHANGED <<disposed, reconcilerVars, routerVars>>

\* { ...this.settings, ...newSettings }
MergeSettings(s, newSettings) ==
    [f \in DOMAIN s |-> IF f \in DOMAIN newSettings THEN newSettings[f] ELSE s[f]]

PartialSettings ==
    [permissionLevel : Levels] \cup [allowedPaths : AllowedChoices]
    \cup [deniedPaths : DeniedChoices] \cup [auditLog : BOOLEAN]
    \cup [autoGrantSafePaths : BOOLEAN]

\* A slip: the stricter level clears the session grants only.
UpdatedState_SessionOnly(s, newSettings, session, stored) ==
    LET merged == MergeSettings(s, newSettings)
    IN  IF "permissionLevel" \in DOMAIN newSettings
           /\ newSettings.permissionLevel = "workspace-only"
        THEN [settings |-> merged, session |-> EmptyMap, stored |-> stored,
              appended |-> AuditLines(merged,
                               AuditEntry(FALSE, "none", <<"Session permissions cleared">>))]
        ELSE [settings |-> merged, session |-> session, stored |-> stored,
              appended |-> <<>>]

\* What updateSettings leaves: the merged settings and, when the new
\* level is workspace-only, what clearAllPermissions leaves.
UpdatedState(s, newSettings, session, stored) ==
    LET merged == MergeSettings(s, newSettings)
    IN  IF "permissionLevel" \in DOMAIN newSettings
           /\ newSettings.permissionLevel = "workspace-only"
        THEN [settings |-> merged, session |-> EmptyMap, stored |-> <<>>,
              appended |-> AuditLines(merged,
                               AuditEntry(FALSE, "none", <<"All permissions cleared">>))]
        ELSE [settings |-> merged, session |-> session, stored |-> stored,
              appended |-> <<>>]

updateSettings(newSettings) ==
    /\ NoneDone
    /\ \E u \in {UpdatedState(settings, newSettings, sessionPermissions, workspaceState)} :
           /\ settings' = u.settings
           /\ sessionPermissions' = u.session
           /\ workspaceState' = u.stored
           /\ appended' = u.appended
    /\ lastCall' = [method |-> "updateSettings",
                    permissionLevel |-> IF "permissionLevel" \in DOMAIN newSettings
                                        THEN newSettings.permissionLevel
                                        ELSE "unchanged",
                    removed |-> <<Cardinality(DOMAIN sessionPermissions)
                                    - Cardinality(DOMAIN sessionPermissions'),
                                  Len(workspaceState) - Len(workspaceState')>>]
    /\ UNCHANGED <<now, callVars>>
    /\ UNCHANGED <<disposed, reconcilerVars, routerVars>>

\* The host restarts: a new SecurityManager is constructed over the same
\* workspaceState, with the configuration as it was or edited while the
\* host was down; pending calls die with the old process.
Restart(newSettings) ==
    /\ NoneDone
    /\ settings' = MergeSettings(settings, newSettings)
    /\ sessionPermissions' = EmptyMap
    /\ appended' = <<>>
    /\ lastCall' = [method |-> "constructor",
                    removed |-> <<Cardinality(DOMAIN sessionPermissions), 0>>]
    /\ pc' = [c \in Calls |-> "idle"]
    /\ request' = [c \in Calls |-> NoRequest]
    /\ validation' = [c \in Calls |-> NoValidation]
    /\ outcome' = [c \in Calls |-> "none"]
    /\ prompted' = [c \in Calls |-> FALSE]
    /\ UNCHANGED <<workspaceState, now>>
    /\ disposed' = FALSE
    /\ UNCHANGED <<reconcilerVars, routerVars>>

(***************************************************************************)
(* Spec: one caller at a time, under every configuration.                  *)
(***************************************************************************)
Next ==
    \/ \E i \in Inputs : RequestDecide(1, i.request, i.lstat)
    \/ \E choice \in DialogChoices : DialogAnswer(1, choice)
    \/ DialogFail(1)
    \/ Return(1)
    \/ Tick
    \/ cleanupExpiredPermissions
    \/ clearSessionPermissions
    \/ clearAllPermissions
    \/ getActivePermissionsCall
    \/ \E n \in PartialSettings : updateSettings(n)
    \/ \E n \in [permissionLevel : Levels] : Restart(n)

Spec == Init /\ [][Next]_vars

(***************************************************************************)
(* Teardown of the SecurityManager.  dispose (lines 487-489) disposes the  *)
(* output channel and nothing else: the quick pick of a pending call stays *)
(* open and the call stays suspended until the user answers.  What         *)
(* appendLine does on a disposed channel is the host's choice: it drops    *)
(* the line or it throws.                                                  *)
(***************************************************************************)
dispose ==
    /\ NoneDone
    /\ ~disposed
    /\ disposed' = TRUE
    /\ appended' = <<>>
    /\ lastCall' = [method |-> "dispose"]
    /\ UNCHANGED <<settings, sessionPermissions, workspaceState, now, callVars,
                   reconcilerVars, routerVars>>

\* The user answers the quick pick of a disposed engine.  The grant is
\* stored before logAuditEntry runs (lines 171-180); when appendLine throws,
\* the catch block's own logAuditEntry throws again and the call rejects
\* with the host's error.
DialogAnswerDisposed(c, choice, closedThrows) ==
    /\ NoneDone
    /\ disposed
    /\ pc[c] = "dialog"
    /\ \E a \in {AfterDialog(request[c], showPermissionDialog(choice), settings,
                             sessionPermissions, workspaceState, now)} :
           /\ GrantCount(a.session, a.stored) <= MaxGrants
           /\ outcome' = [outcome EXCEPT ![c] =
                              IF settings.auditLog /\ closedThrows
                              THEN "Error" ELSE a.outcome]
           /\ sessionPermissions' = a.session
           /\ workspaceState' = a.stored
    /\ appended' = <<>>
    /\ pc' = [pc EXCEPT ![c] = "done"]
    /\ lastCall' = NoCall
    /\ UNCHANGED <<settings, now, request, validation, prompted, disposed,
                   reconcilerVars, routerVars>>

\* The settings the teardown is looked at under.
InitTeardown ==
    /\ Init
    /\ settings.permissionLevel = "contextual"
    /\ settings.deniedPaths = <<>>

\* Nobody calls a torn-down engine; the calls suspended in it live on.
NextTeardown ==
    \/ \E i \in Inputs : ~disposed /\ RequestDecide(1, i.request, i.lstat)
    \/ \E choice \in DialogChoices : ~disposed /\ DialogAnswer(1, choice)
    \/ \E choice \in DialogChoices, closedThrows \in BOOLEAN :
           DialogAnswerDisposed(1, choice, closedThrows)
    \/ Return(1)
    \/ dispose

\* The event loop resumes the caller of a settled call; nothing in the
\* code makes the user answer.
SpecTeardown == InitTeardown /\ [][NextTeardown]_vars /\ WF_vars(Return(1))

(***************************************************************************)
(* Two requestPermission calls at a time.  requestPermission is async and  *)
(* nothing serialises its callers: a second call runs while the first is   *)
(* suspended at its quick pick, and the settings can change in between.    *)
(***************************************************************************)
RaceInputs == {Input(PathHosts, "read", "file"), Input(PathHosts, "write", "file"),
               Input(PathBashrc, "read", "file")}

InitRace ==
    /\ Init
    /\ settings.permissionLevel = "contextual"
    /\ settings.deniedPaths = <<>>
    /\ settings.auditLog

NextRace ==
    \/ \E c \in Calls, i \in RaceInputs : RequestDecide(c, i.request, i.lstat)
    \/ \E c \in Calls, choice \in DialogChoices : DialogAnswer(c, choice)
    \/ \E c \in Calls : Return(c)
    \/ \E n \in [allowedPaths : AllowedChoices] : updateSettings(n)

SpecRace == InitRace /\ [][NextRace]_vars

(***************************************************************************)
(* MCPSyncManager: calls.  A call runs without yielding up to its next     *)
(* await of workspaceState.update (inside saveSyncState): the awaits       *)
(* before it wait for nothing outside the call.  update puts the new value *)
(* in the Memento at once and settles, in the order of the calls, when the *)
(* host has written it or failed to.                                       *)
(***************************************************************************)
\* No call has settled without its caller having resumed.
NoTaskDone == \A c \in Callers : task[c].stage # "done"

\* The part of a call between its first lines and its save.
Body(t, file, state, servers) ==
    CASE t.op = "toggleServer" ->
            RefreshOutcome("ok", ToggledState(state, t.serverName, t.flag),
                           ToggledServers(servers, t.serverName, t.flag), FALSE, TRUE)
      [] t.op = "setSyncAll" ->
            RefreshOutcome("ok", SyncAllState(state, servers, t.flag),
                           SyncAllServers(state, servers, t.flag), FALSE, TRUE)
      [] OTHER -> Refreshed(file, state, servers)

\* initialize after its refresh (lines 35-39): loadExtensionServers and
\* setupAutoRefresh; the other calls return.
Finish(t, result) ==
    IF t.op = "initialize" /\ result = "ok"
    THEN /\ extensionServers' = loadExtensionServers(extensionFile)
         /\ refreshTimer' = (refreshTimer \/ autoRefresh)
    ELSE UNCHANGED <<extensionServers, refreshTimer>>

RunBody(c, t, state, pending) ==
    \E o \in {Body(t, cliFile, state, cliServers)} :
        /\ syncState' = o.syncState
        /\ cliServers' = o.cliServers
        /\ lastStep' = [caller |-> c, op |-> t.op, mapped |-> o.mapped,
                        changed |-> o.syncState # state]
        /\ IF o.result = "ok" /\ o.saves
           THEN /\ storedSyncState' = o.syncState
                /\ pendingUpdates' = Append(pending, [caller |-> c, state |-> o.syncState])
                /\ task' = [task EXCEPT ![c] = [t EXCEPT !.stage = "save"]]
                /\ UNCHANGED <<extensionServers, refreshTimer>>
           ELSE /\ pendingUpdates' = pending
                /\ task' = [task EXCEPT ![c] = [t EXCEPT !.stage = "done",
                                                         !.result = o.result]]
                /\ Finish(t, o.result)
                /\ UNCHANGED storedSyncState

\* toggleServer and setSyncAll start from initializeSyncState when there is
\* no state in memory (lines 149-151, 187-189), loadSyncState when the
\* Memento holds none (lines 275-284).
StartsFromDefault(t) ==
    \/ t.op \in {"toggleServer", "setSyncAll"} /\ IsNullState(syncState)
    \/ t.op = "initialize" /\ IsNullState(storedSyncState)

Call(c, t) ==
    /\ NoTaskDone
    /\ task[c].stage = "idle"
    /\ IF StartsFromDefault(t)
       THEN /\ syncState' = DefaultSyncState
            /\ storedSyncState' = DefaultSyncState
            /\ pendingUpdates' = Append(pendingUpdates,
                                        [caller |-> c, state |-> DefaultSyncState])
            /\ task' = [task EXCEPT ![c] = [t EXCEPT !.stage = "initSave"]]
            /\ lastStep' = [caller |-> c, op |-> t.op, mapped |-> FALSE, changed |-> TRUE]
            /\ UNCHANGED <<cliServers, extensionServers, refreshTimer>>
       ELSE RunBody(c, [t EXCEPT !.stage = "body"],
                    IF t.op = "initialize" THEN storedSyncState ELSE syncState,
                    pendingUpdates)
    /\ beforeEnable' = IF t.op = "setSyncAll" /\ t.flag
                       THEN [known |-> TRUE, servers |-> cliServers]
                       ELSE IF t.op = "setSyncAll" THEN beforeEnable
                       ELSE NoEntries
    /\ lastToggle' = IF c = "timer" \/ (t.op = "initialize" /\ lastToggle.restarted)
                     THEN lastToggle ELSE NoToggle
    /\ UNCHANGED <<cliFile, extensionFile, autoRefresh, diskSyncState, securityVars, routerVars>>

initialize(c) == Call(c, Task("initialize", "", FALSE))

refreshCLIServers(c) == Call(c, Task("refreshCLIServers", "", FALSE))

toggleServer(c, serverName, isActive) == Call(c, Task("toggleServer", serverName, isActive))

setSyncAll(c, enabled) == Call(c, Task("setSyncAll", "", enabled))

\* The callback of setupAutoRefresh's interval (lines 333-335).
RefreshTimerFires ==
    /\ refreshTimer
    /\ refreshCLIServers("timer")

\* The oldest pending update settles; saveSyncState logs a failure and
\* returns either way (lines 316-321), and the call goes on.
UpdateSettled(ok) ==
    /\ NoTaskDone
    /\ pendingUpdates # <<>>
    /\ \E h \in {Head(pendingUpdates)} :
       \E t \in {task[h.caller]} :
           /\ diskSyncState' = IF ok THEN h.state ELSE diskSyncState
           /\ IF t.stage = "initSave"
              THEN RunBody(h.caller, [t EXCEPT !.stage = "body", !.saveFailed = ~ok],
                           syncState, Tail(pendingUpdates))
              ELSE /\ pendingUpdates' = Tail(pendingUpdates)
                   /\ task' = [task EXCEPT ![h.caller] =
                                   [t EXCEPT !.stage = "done", !.result = "ok",
                                             !.saveFailed = t.saveFailed \/ ~ok]]
                   /\ Finish(t, "ok")
                   /\ lastStep' = [caller |-> h.caller, op |-> t.op, mapped |-> FALSE,
                                   changed |-> FALSE]
                   /\ UNCHANGED <<syncState, cliServers, storedSyncState>>
    /\ UNCHANGED <<cliFile, extensionFile, autoRefresh, beforeEnable, lastToggle,
                   securityVars, routerVars>>

\* The caller resumes with the result.
ReturnTask(c) ==
    /\ task[c].stage = "done"
    /\ task' = [task EXCEPT ![c] = IdleTask]
    /\ lastStep' = NoStep
    /\ beforeEnable' = IF task[c].op = "setSyncAll" /\ ~task[c].flag
                       THEN NoEntries ELSE beforeEnable
    /\ lastToggle' = IF task[c].op = "toggleServer" /\ task[c].result = "ok"
                     THEN [known |-> TRUE, serverName |-> task[c].serverName,
                           flag |-> task[c].flag, restarted |-> FALSE]
                     ELSE IF task[c].op = "initialize" THEN NoToggle
                     ELSE lastToggle
    /\ UNCHANGED <<cliFile, extensionFile, autoRefresh, storedSyncState, diskSyncState,
                   pendingUpdates, syncState, cliServers, extensionServers,
                   refreshTimer, securityVars, routerVars>>

\* Another program rewrites the CLI's file.
EditCliFile(file) ==
    /\ NoTaskDone
    /\ file # cliFile
    /\ cliFile' = file
    /\ lastStep' = NoStep
    /\ beforeEnable' = NoEntries
    /\ lastToggle' = NoToggle
    /\ UNCHANGED <<extensionFile, autoRefresh, storedSyncState, diskSyncState,
                   pendingUpdates, syncState, cliServers, extensionServers,
                   refreshTimer, task, securityVars, routerVars>>

\* dispose, lines 366-372.
disposeSync ==
    /\ NoTaskDone
    /\ refreshTimer
    /\ refreshTimer' = FALSE
    /\ lastStep' = NoStep
    /\ UNCHANGED <<cliFile, extensionFile, autoRefresh, storedSyncState, diskSyncState,
                   pendingUpdates, syncState, cliServers, extensionServers, task,
                   beforeEnable, lastToggle, securityVars, routerVars>>

\* The host restarts and constructs a new MCPSyncManager (lines 14-21) over
\* what reached the disk; the calls in flight and the updates not yet
\* written die with the old process.
NewSession ==
    /\ NoTaskDone
    /\ syncState' = NullSyncState
    /\ cliServers' = <<>>
    /\ extensionServers' = <<>>
    /\ refreshTimer' = FALSE
    /\ storedSyncState' = diskSyncState
    /\ pendingUpdates' = <<>>
    /\ task' = [c \in Callers |-> IdleTask]
    /\ lastStep' = NoStep
    /\ beforeEnable' = NoEntries
    /\ lastToggle' = [lastToggle EXCEPT !.restarted = lastToggle.known]
    /\ UNCHANGED <<cliFile, extensionFile, autoRefresh, diskSyncState, securityVars, routerVars>>

\* A first run: nothing stored, a manager constructed and not initialized.
InitSync ==
    /\ cliFile \in CliFiles
    /\ extensionFile = <<"a">>
    /\ autoRefresh = TRUE
    /\ ReconcilerAtRest
    /\ RouterAtRest
    /\ settings = RestSettings
    /\ sessionPermissions = EmptyMap
    /\ workspaceState = <<>>
    /\ now = 0
    /\ appended = <<>>
    /\ lastCall = NoCall
    /\ InitCalls
    /\ disposed = FALSE

NextSync ==
    \/ initialize("ui")
    \/ refreshCLIServers("ui")
    \/ \E name \in ServerNames, isActive \in BOOLEAN : toggleServer("ui", name, isActive)
    \/ \E enabled \in BOOLEAN : setSyncAll("ui", enabled)
    \/ RefreshTimerFires
    \/ \E ok \in BOOLEAN : UpdateSettled(ok)
    \/ \E c \in Callers : ReturnTask(c)
    \/ \E file \in CliFiles : EditCliFile(file)
    \/ disposeSync
    \/ NewSession

SpecSync == InitSync /\ [][NextSync]_vars

(***************************************************************************)
(* HybridCliManager: routing.  A routeCommand call detects, or takes the   *)
(* cached capabilities, and routes; between calls the CLI is installed,    *)
(* upgraded or removed and the cache grows old.                            *)
(***************************************************************************)
routeCommand(commandName) ==
    /\ \E d \in {detectCLICapabilities(cliCapabilities, cliInstall, helpOutput)} :
           /\ cliCapabilities' = d.cache
           /\ routed' = [commandName |-> commandName,
                         handler |-> RouteHandler(commandName, d.capabilities),
                         detected |-> ~d.capabilities.isNull]
    /\ UNCHANGED <<cliInstall, helpOutput, securityVars, reconcilerVars>>

\* The CLI is installed, upgraded, broken or removed.
InstallChanges(install, output) ==
    /\ <<install, output>> # <<cliInstall, helpOutput>>
    /\ cliInstall' = install
    /\ helpOutput' = output
    /\ UNCHANGED <<cliCapabilities, routed, securityVars, reconcilerVars>>

\* CACHE_TTL passes since the last detection (line 179).
CacheTtlPasses ==
    /\ ~cliCapabilities.isNull
    /\ cliCapabilities.recent
    /\ cliCapabilities' = [cliCapabilities EXCEPT !.recent = FALSE]
    /\ UNCHANGED <<cliInstall, helpOutput, routed, securityVars, reconcilerVars>>

InitRoute ==
    /\ cliInstall \in CliInstalls
    /\ helpOutput \in HelpOutputs
    /\ cliCapabilities = NullCapabilities
    /\ routed = NoRoute
    /\ settings = RestSettings
    /\ sessionPermissions = EmptyMap
    /\ workspaceState = <<>>
    /\ now = 0
    /\ appended = <<>>
    /\ lastCall = NoCall
    /\ InitCalls
    /\ disposed = FALSE
    /\ cliFile = FileMissing
    /\ extensionFile = <<>>
    /\ autoRefresh = FALSE
    /\ ReconcilerAtRest

NextRoute ==
    \/ \E commandName \in CommandNames : routeCommand(commandName)
    \/ \E install \in CliInstalls, output \in HelpOutputs : InstallChanges(install, output)
    \/ CacheTtlPasses

SpecRoute == InitRoute /\ [][NextRoute]_vars

(***************************************************************************)
(* Properties.                                                             *)
(***************************************************************************)
\* The normalized path is the workspace root or lies below it.
InsideWorkspace(normalizedPath) ==
    \/ normalizedPath = WorkspaceRoot
    \/ StartsWith(normalizedPath, WorkspaceRoot \o <<"/">>)

\* The step is the first of a requestPermission call c.
Begins(c) == pc[c] = "idle" /\ pc'[c] # "idle"

\* The step is the one in which call c returns or throws.
Completes(c) == pc[c] # "done" /\ pc'[c] = "done"

GrantsUnchanged ==
    /\ sessionPermissions' = sessionPermissions
    /\ workspaceState' = workspaceState

\* C1: a request whose path passes validation and lies inside the workspace
\* root returns true at once, without the quick pick, and leaves the session
\* map and the durable store as they were, whatever the settings are.
C1_WorkspaceAutoGrant ==
    [][\A c \in Calls :
          (/\ Begins(c)
           /\ validation'[c].isValid
           /\ InsideWorkspace(validation'[c].normalizedPath))
          => (/\ pc'[c] = "done"
              /\ outcome'[c] = "true"
              /\ ~prompted'[c]
              /\ GrantsUnchanged)]_vars

\* A workspace file was granted under the strictest level with a deny list
\* and grants on record.
C1_Witness ==
    \E c \in Calls :
        /\ pc[c] = "done"
        /\ validation[c].isValid
        /\ InsideWorkspace(validation[c].normalizedPath)
        /\ outcome[c] = "true"
        /\ settings.permissionLevel = "workspace-only"
        /\ settings.deniedPaths # <<>>
        /\ workspaceState # <<>>

\* The request of call c passed rules 1 to 4: its path is valid, not taken
\* for a workspace path, the level is not workspace-only and no deny
\* pattern matched.
ReachesGrantLookup(c) ==
    /\ Begins(c)
    /\ validation'[c].isValid
    /\ ~validation'[c].inWorkspace
    /\ settings.permissionLevel # "workspace-only"
    /\ validation'[c].matchesDeniedPattern = Undefined

HasDurableGrant(r) ==
    \E i \in 1..Len(workspaceState) :
        /\ workspaceState[i].filePath = r.filePath
        /\ workspaceState[i].permissionType = r.permissionType
        /\ ~isPermissionExpired(workspaceState[i], now)

\* C2: while the durable store holds a non-expired grant for (path, kind), a
\* request for that pair (one that the validation, workspace, level and deny
\* rules let through) returns true without the quick pick and without another
\* record being added.
C2_DurableGrantReused ==
    [][\A c \in Calls :
          (ReachesGrantLookup(c) /\ HasDurableGrant(request'[c]))
          => (/\ pc'[c] = "done"
              /\ outcome'[c] = "true"
              /\ ~prompted'[c]
              /\ workspaceState' = workspaceState)]_vars

\* C3: no store ever holds a grant of scope once.
C3_OnceNeverStored ==
    /\ \A i \in 1..Len(workspaceState) : workspaceState[i].scope # "once"
    /\ \A k \in DOMAIN sessionPermissions : sessionPermissions[k].scope # "once"

\* C4: under the workspace-only level a request for a valid path outside the
\* workspace throws ACCESS_DENIED, shows no quick pick and creates no grant.
C4_WorkspaceOnlyDenies ==
    [][\A c \in Calls :
          (/\ Begins(c)
           /\ settings.permissionLevel = "workspace-only"
           /\ validation'[c].isValid
           /\ ~InsideWorkspace(validation'[c].normalizedPath))
          => (/\ pc'[c] = "done"
              /\ outcome'[c] = "ACCESS_DENIED"
              /\ ~prompted'[c]
              /\ GrantsUnchanged)]_vars

\* C5: a request for a valid path outside the workspace that matches a deny
\* pattern fails with ACCESS_DENIED, and the audit entry written for it
\* records the first deny pattern that matched (stated for the requests the
\* deny rule is reached by: the level is not workspace-only and the audit
\* log is on).
C5_DenyPatternDenies ==
    [][\A c \in Calls :
          (/\ Begins(c)
           /\ settings.permissionLevel # "workspace-only"
           /\ settings.auditLog
           /\ validation'[c].isValid
           /\ ~InsideWorkspace(validation'[c].normalizedPath)
           /\ validation'[c].matchesDeniedPattern # Undefined)
          => (/\ pc'[c] = "done"
              /\ outcome'[c] = "ACCESS_DENIED"
              /\ Len(appended') = 1
              /\ appended'[1].detail = validation'[c].matchesDeniedPattern)]_vars

\* C6: when validatePath reports isValid = false the call throws
\* INVALID_PATH: it shows no quick pick and creates no grant, whatever the
\* level, the workspace membership, the patterns and the grants on record.
C6_InvalidPathThrows ==
    [][\A c \in Calls :
          (Begins(c) /\ ~validation'[c].isValid)
          => (/\ pc'[c] = "done"
              /\ outcome'[c] = "INVALID_PATH"
              /\ ~prompted'[c]
              /\ GrantsUnchanged)]_vars

\* A symbolic link inside the workspace was refused in danger mode.
C6_Witness ==
    \E c \in Calls :
        /\ pc[c] = "done"
        /\ outcome[c] = "INVALID_PATH"
        /\ ~validation[c].isValid
        /\ validation[c].inWorkspace
        /\ settings.permissionLevel = "danger-mode"

\* C7: when updateSettings was given the workspace-only level, the session
\* map and the durable store are empty when it returns.
C7_StrictestLevelClears ==
    (lastCall.method = "updateSettings" /\ lastCall.permissionLevel = "workspace-only")
    => (sessionPermissions = EmptyMap /\ workspaceState = <<>>)

\* updateSettings was given the workspace-only level while both stores
\* held a grant.
C7_Witness ==
    /\ lastCall.method = "updateSettings"
    /\ lastCall.permissionLevel = "workspace-only"
    /\ lastCall.removed = <<1, 1>>

\* C8 as stated: every call that has returned or thrown appended exactly
\* one audit entry.
C8_ExactlyOneEntry ==
    \A c \in Calls : pc[c] = "done" => Len(appended) = 1

\* C8 as amended: the step in which a call returns or throws appends
\* exactly one audit entry when the auditLog setting is on and none when it
\* is off, and the call appends nothing before that step.
C8_OneEntryWhenAuditOn ==
    [][\A c \in Calls :
          /\ Completes(c) => Len(appended') = (IF settings.auditLog THEN 1 ELSE 0)
          /\ (Begins(c) /\ pc'[c] = "dialog") => appended' = <<>>]_vars

\* A call that went through the quick pick has returned with its one entry.
C8_Witness ==
    \E c \in Calls :
        /\ pc[c] = "done"
        /\ prompted[c]
        /\ settings.auditLog
        /\ Len(appended) = 1

\* C9: the durable store never holds a grant of scope session, and right
\* after a restart no lookup finds a grant of scope session.
C9_SessionGrantsVolatile ==
    /\ \A i \in 1..Len(workspaceState) : workspaceState[i].scope # "session"
    /\ lastCall.method = "constructor" =>
           \A i \in Inputs :
               LET found == findExistingPermission(sessionPermissions, workspaceState,
                                i.request.filePath, i.request.permissionType)
               IN  found = <<>> \/ found[1].scope # "session"

\* A restart dropped a session grant while the durable store kept a grant.
C9_Witness ==
    /\ lastCall.method = "constructor"
    /\ lastCall.removed[1] > 0
    /\ workspaceState # <<>>

\* C10: with safe-path auto-grant on, a request for a whitelisted path that
\* no earlier rule settles is granted without the quick pick, with a grant
\* of scope session in the session map and nothing added to the durable
\* store; a restart leaves the session map empty.
C10_SafePathSessionGrant ==
    [][/\ \A c \in Calls :
             (/\ ReachesGrantLookup(c)
              /\ LET found == findExistingPermission(sessionPermissions, workspaceState,
                                  request'[c].filePath, request'[c].permissionType)
                 IN  found = <<>> \/ isPermissionExpired(found[1], now)
              /\ validation'[c].matchesAllowedPattern = Undefined
              /\ settings.autoGrantSafePaths
              /\ SafePathTable[request'[c].filePath])
             => (/\ pc'[c] = "done"
                 /\ outcome'[c] = "true"
                 /\ ~prompted'[c]
                 /\ workspaceState' = workspaceState
                 /\ LET key == getPermissionKey(request'[c].filePath,
                                                request'[c].permissionType)
                    IN  /\ key \in DOMAIN sessionPermissions'
                        /\ sessionPermissions'[key].scope = "session")
       /\ lastCall'.method = "constructor" => sessionPermissions' = EmptyMap]_vars

\* ~/.bashrc was granted as a safe path: the grant is in the session map
\* and the durable store is empty.
C10_Witness ==
    \E c \in Calls :
        /\ pc[c] = "done"
        /\ request[c].filePath = PathBashrc
        /\ outcome[c] = "true"
        /\ appended = <<AuditEntry(TRUE, "auto-granted (safe path)", Undefined)>>
        /\ getPermissionKey(PathBashrc, "read") \in DOMAIN sessionPermissions
        /\ workspaceState = <<>>

\* C11: when the user picks Deny in the quick pick, or dismisses it, the
\* call returns false (it throws nothing) and neither store gains a grant.
C11_DeclineReturnsFalse ==
    [][\A c \in Calls : \A choice \in {"deny", "dismiss"} :
          (pc[c] = "dialog" /\ DialogAnswer(c, choice))
          => (/\ pc'[c] = "done"
              /\ outcome'[c] = "false"
              /\ GrantsUnchanged)]_vars

\* A prompted call has returned false while the durable store held a grant.
C11_Witness ==
    \E c \in Calls :
        /\ pc[c] = "done"
        /\ prompted[c]
        /\ outcome[c] = "false"
        /\ appended = <<AuditEntry(FALSE, "denied by user", Undefined)>>
        /\ workspaceState # <<>>

\* C12: a call that is suspended at the quick pick when the engine is
\* disposed eventually returns false.
C12_TeardownDeniesPending ==
    \A c \in Calls :
        (disposed /\ pc[c] = "dialog") ~> (pc[c] = "done" /\ outcome[c] = "false")

\* Some store holds a grant for the request's pair that has not expired.
HasLiveGrant(r) ==
    \/ HasDurableGrant(r)
    \/ LET key == getPermissionKey(r.filePath, r.permissionType)
       IN  /\ key \in DOMAIN sessionPermissions
           /\ ~isPermissionExpired(sessionPermissions[key], now)

\* C13: the grant lookup acts as if expired grants were in neither store: a
\* request that reaches it is granted as the reuse of an existing grant
\* exactly when some store holds a non-expired grant for its pair (read off
\* the audit entry, so with the audit log on).
C13_ExpiredGrantsAbsent ==
    [][\A c \in Calls :
          (ReachesGrantLookup(c) /\ settings.auditLog)
          => ((/\ pc'[c] = "done"
               /\ appended' = <<AuditEntry(TRUE, "auto-granted (existing permission)",
                                           Undefined)>>)
              <=> HasLiveGrant(request'[c]))]_vars

(***************************************************************************)
(* Properties of MCPSyncManager, under SpecSync.                           *)
(***************************************************************************)
\* Call c has settled and its caller is about to resume.
Settled(c, op) == task[c].stage = "done" /\ task[c].op = op

\* The step runs the refresh of a refreshCLIServers call of c: it reads
\* the source.
RefreshRuns(c) ==
    /\ task[c].stage = "idle"
    /\ task'[c].op = "refreshCLIServers"

Occurrences(array, x) == Cardinality({i \in DOMAIN array : array[i] = x})

ActiveFlags(servers) == [i \in DOMAIN servers |-> servers[i].isActive]

\* C14: when setSyncAll(false) returns after a setSyncAll(true) with no
\* other call in between, every CLI entry's active flag is what it was
\* right before the setSyncAll(true).
C14_SyncAllRoundTrip ==
    (Settled("ui", "setSyncAll") /\ ~task["ui"].flag /\ beforeEnable.known)
    => ActiveFlags(cliServers) = ActiveFlags(beforeEnable.servers)

\* C15: the active-set never holds a name twice, and when toggleServer(name,
\* true) returns it holds name exactly once.
C15_ToggleOnIdempotent ==
    /\ \A name \in ServerNames : Occurrences(syncState.activeCliServers, name) <= 1
    /\ \A c \in Callers :
           (Settled(c, "toggleServer") /\ task[c].flag)
           => Occurrences(syncState.activeCliServers, task[c].serverName) = 1

\* toggleServer(name, true) has run on a state whose active-set held name
\* already, after another name, and left it as it was.
C15_Witness ==
    /\ task["ui"].op = "toggleServer"
    /\ task["ui"].flag
    /\ task["ui"].stage = "save"
    /\ lastStep.op = "toggleServer"
    /\ ~lastStep.changed
    /\ Len(syncState.activeCliServers) = 2
    /\ Occurrences(syncState.activeCliServers, task["ui"].serverName) = 1

\* The names the CLI's file defines.
DefinedNames(file) ==
    IF readCLIConfig(file).isNull THEN {}
    ELSE {file.mcpServers[i].name : i \in DOMAIN file.mcpServers}

\* C16: once initialize has loaded both sources, a name that the CLI's file
\* and the extension's configuration both define has exactly one record in
\* getAllServers' list, the CLI's, with hasConflict set; and no name has two
\* records.
C16_ConflictFlagged ==
    LET view == getAllServers(cliServers, extensionServers)
    IN  /\ \A i, j \in DOMAIN view : view[i].name = view[j].name => i = j
        /\ (Settled("ui", "initialize") /\ task["ui"].result = "ok")
           => \A name \in DefinedNames(cliFile) :
                  ArrayIncludes(extensionFile, name)
                  => \E i \in DOMAIN view :
                         /\ view[i].name = name
                         /\ view[i].source = "cli"
                         /\ view[i].hasConflict

\* The file is missing or is not what ClaudeCLIConfig describes.
MissingOrMalformed(file) ==
    \/ file.kind \in {"missing", "unparseable", "null"}
    \/ \E i \in DOMAIN file.mcpServers : file.mcpServers[i].command = NullJson

\* C17: a refreshCLIServers call that finds the CLI's file missing or
\* malformed returns without throwing and leaves cliServers empty.
C17_BadSourceEmptiesList ==
    [][\A c \in Callers :
          (RefreshRuns(c) /\ MissingOrMalformed(cliFile))
          => (/\ task'[c].stage = "done"
              /\ task'[c].result = "ok"
              /\ cliServers' = <<>>)]_vars

\* C18: a refreshCLIServers call that finds the file's digest equal to the
\* recorded one does not build new entry objects, and leaves every entry's
\* active flag as getServerActiveState gives it.
C18_UnchangedSourceKeepsEntries ==
    [][\A c \in Callers :
          (/\ RefreshRuns(c)
           /\ ~readCLIConfig(cliFile).isNull
           /\ cliFile.hasServers
           /\ ~IsNullState(syncState)
           /\ syncState.cliConfigHash = calculateConfigHash(readCLIConfig(cliFile)))
          => (/\ ~lastStep'.mapped
              /\ \A i \in DOMAIN cliServers' :
                     cliServers'[i].isActive
                         = getServerActiveState(syncState, cliServers'[i].name))]_vars

\* C19: a refreshCLIServers call made while another one is waiting for its
\* save is dropped: it changes neither cliServers nor the sync state and
\* saves nothing.
C19_RefreshNotReentrant ==
    [][\A c, d \in Callers :
          (/\ c # d
           /\ task[d].op = "refreshCLIServers"
           /\ task[d].stage = "save"
           /\ RefreshRuns(c))
          => (/\ task'[c].stage = "done"
              /\ cliServers' = cliServers
              /\ syncState' = syncState
              /\ pendingUpdates' = pendingUpdates)]_vars

\* C20: when toggleServer(name, active) returns, the change is on disk and
\* getAllServers reports isActive = active for the CLI entry called name.
C20_ToggleVisibleOnReturn ==
    \A c \in Callers :
        Settled(c, "toggleServer")
        => (/\ ArrayIncludes(diskSyncState.activeCliServers, task[c].serverName)
                   = task[c].flag
            /\ LET view == getAllServers(cliServers, extensionServers)
               IN  \A i \in DOMAIN view :
                       (view[i].name = task[c].serverName /\ view[i].source = "cli")
                       => view[i].isActive = task[c].flag)

\* C25: validatePath always hands a result to the call that asked for it,
\* also when resolving the path threw, and in that result isValid is true
\* exactly when the list of warnings is empty.
C25_ValidationTotal ==
    \A c \in Calls :
        pc[c] # "idle"
        => (/\ validation[c].isValid = (validation[c].warnings = <<>>)
            /\ validation[c].normalizedPath # Undefined)

\* Resolving the path threw and the call got a result that is not valid and
\* carries the failure as its warning.
C25_Witness ==
    \E c \in Calls :
        /\ pc[c] = "done"
        /\ ~validation[c].isValid
        /\ validation[c].warnings = <<"Path validation failed">>
        /\ validation[c].normalizedPath = request[c].filePath

ClearingMethods == {"clearSessionPermissions", "clearAllPermissions"}

\* C26 as stated: a clearing method called right after itself changes
\* neither store, clearSessionPermissions never changes the durable store,
\* and every call of a clearing method appends one audit entry.
C26_ClearIdempotentOneEntry ==
    [][lastCall'.method \in ClearingMethods
       => (/\ lastCall'.repeated
              => (sessionPermissions' = sessionPermissions
                  /\ workspaceState' = workspaceState)
           /\ lastCall'.method = "clearSessionPermissions"
              => workspaceState' = workspaceState
           /\ Len(appended') = 1)]_vars

\* C26 (amended): a clearing method called right after itself changes
\* neither store, clearSessionPermissions never changes the durable store,
\* and a call of a clearing method appends one audit entry when the audit
\* log is on and none when it is off.
C26_ClearIdempotent ==
    [][lastCall'.method \in ClearingMethods
       => (/\ lastCall'.repeated
              => (sessionPermissions' = sessionPermissions
                  /\ workspaceState' = workspaceState)
           /\ lastCall'.method = "clearSessionPermissions"
              => workspaceState' = workspaceState
           /\ Len(appended') = (IF settings.auditLog THEN 1 ELSE 0))]_vars

\* clearAllPermissions has run twice in a row with the audit log on, and
\* the second call left one entry for itself.
C26_Witness ==
    /\ lastCall.method = "clearAllPermissions"
    /\ lastCall.repeated
    /\ settings.auditLog
    /\ Len(appended) = 1
    /\ sessionPermissions = EmptyMap
    /\ workspaceState = <<>>

\* C27: getActivePermissions returns the grants of the session map and of
\* the durable store that have not expired, each as often as the stores
\* hold it, and no expired grant; the call changes neither store nor the
\* settings and appends nothing to the audit log.
C27_ActiveGrantsOnly ==
    [][lastCall'.method = "getActivePermissions"
       => LET result == lastCall'.result
              live(p) == ~isPermissionExpired(p, now)
              liveKeys == {k \in DOMAIN sessionPermissions : live(sessionPermissions[k])}
              liveStored == {i \in DOMAIN workspaceState : live(workspaceState[i])}
          IN  /\ \A i \in DOMAIN result : live(result[i])
              /\ Len(result) = Cardinality(liveKeys) + Cardinality(liveStored)
              /\ \A k \in liveKeys :
                     \E i \in DOMAIN result : result[i] = sessionPermissions[k]
              /\ \A j \in liveStored :
                     Cardinality({i \in DOMAIN result : result[i] = workspaceState[j]})
                         >= Cardinality({i \in liveStored :
                                             workspaceState[i] = workspaceState[j]})
              /\ sessionPermissions' = sessionPermissions
              /\ workspaceState' = workspaceState
              /\ settings' = settings
              /\ appended' = <<>>]_vars

\* The call found an expired session grant beside a durable one and
\* returned the durable one alone.
C27_Witness ==
    /\ lastCall.method = "getActivePermissions"
    /\ Len(lastCall.result) = 1
    /\ lastCall.result[1].scope = "workspace"
    /\ \E k \in DOMAIN sessionPermissions :
           isPermissionExpired(sessionPermissions[k], now)

\* C28: a request for a valid path outside the workspace that matches a deny
\* pattern fails with ACCESS_DENIED, without a quick pick and without a new
\* grant, whatever grants are on record, whatever allow pattern or safe
\* path it matches, and at every level, danger mode included.
C28_DenyBeatsLaterRules ==
    [][\A c \in Calls :
          (/\ Begins(c)
           /\ validation'[c].isValid
           /\ ~InsideWorkspace(validation'[c].normalizedPath)
           /\ validation'[c].matchesDeniedPattern # Undefined)
          => (/\ pc'[c] = "done"
              /\ outcome'[c] = "ACCESS_DENIED"
              /\ ~prompted'[c]
              /\ GrantsUnchanged)]_vars

\* C29: while the security level is workspace-only the session map and the
\* durable store hold no grant.
C29_NoGrantsUnderStrictestLevel ==
    settings.permissionLevel = "workspace-only"
    => (sessionPermissions = EmptyMap /\ workspaceState = <<>>)

\* C30: the durable store holds at most one grant for a file path and a
\* permission type.
C30_OneDurableGrantPerKey ==
    \A i, j \in DOMAIN workspaceState :
        (/\ workspaceState[i].filePath = workspaceState[j].filePath
         /\ workspaceState[i].permissionType = workspaceState[j].permissionType)
        => i = j

\* C24: the expiration sweep of the hourly timer never runs while a
\* requestPermission call is in flight, a call suspended at the quick pick
\* included.
C24_SweepWaitsForDecisions ==
    lastCall.method = "cleanupExpiredPermissions"
    => \A c \in Calls : pc[c] = "idle"

\* C22: a toggleServer or setSyncAll call one of whose saves the storage
\* refused does not settle as a success.
C22_StorageFailureSurfaced ==
    \A c \in Callers :
        (/\ task[c].stage = "done"
         /\ task[c].op \in {"toggleServer", "setSyncAll"}
         /\ task[c].saveFailed)
        => task[c].result # "ok"

\* Between calls, the Memento written through, no call in flight and no
\* update pending.
BetweenOperations ==
    /\ \A c \in Callers : task[c].stage = "idle"
    /\ pendingUpdates = <<>>

\* C21: between calls the sync state on disk is the sync state in memory.
C21_PersistedEqualsMemory ==
    (BetweenOperations /\ ~IsNullState(syncState))
    => diskSyncState = syncState

\* C23: toggleServer(name, active) returned, the host restarted, and
\* initialize ran over what the storage holds and the CLI's file as it was,
\* a file that defines name; with syncAll off, getAllServers lists name's
\* CLI entry with isActive = active.
C23_ActivationSurvivesRestart ==
    (/\ Settled("ui", "initialize")
     /\ task["ui"].result = "ok"
     /\ lastToggle.known
     /\ lastToggle.restarted
     /\ ~syncState.syncAll
     /\ lastToggle.serverName \in DefinedNames(cliFile))
    => LET view == getAllServers(cliServers, extensionServers)
           mine == {i \in DOMAIN view : /\ view[i].name = lastToggle.serverName
                                        /\ view[i].source = "cli"}
       IN  /\ mine # {}
           /\ \A i \in mine : view[i].isActive = lastToggle.flag

\* C31: the answer to the quick pick decides where the grant goes.  Allow
\* for Session puts a session grant under the request's key in the session
\* map and leaves the durable store alone; Allow for Workspace appends a
\* workspace grant for the request to the durable store and leaves the
\* session map alone; Deny, or a dismissal, changes neither.  The audit
\* entry written for the answer (one when the audit log is on) names the
\* scope chosen, or says that the user denied.
C31_ScopeDecidesStore ==
    [][\A c \in Calls : \A choice \in {"session", "workspace", "deny", "dismiss"} :
          (pc[c] = "dialog" /\ DialogAnswer(c, choice))
          => LET key == getPermissionKey(request[c].filePath, request[c].permissionType)
                 n == Len(workspaceState)
             IN  /\ choice = "session"
                    => (/\ workspaceState' = workspaceState
                        /\ DOMAIN sessionPermissions' = DOMAIN sessionPermissions \cup {key}
                        /\ sessionPermissions'[key].scope = "session"
                        /\ sessionPermissions'[key].filePath = request[c].filePath
                        /\ \A k \in DOMAIN sessionPermissions \ {key} :
                               sessionPermissions'[k] = sessionPermissions[k])
                 /\ choice = "workspace"
                    => (/\ sessionPermissions' = sessionPermissions
                        /\ Len(workspaceState') = n + 1
                        /\ SubSeq(workspaceState', 1, n) = workspaceState
                        /\ workspaceState'[n + 1].scope = "workspace"
                        /\ workspaceState'[n + 1].filePath = request[c].filePath
                        /\ workspaceState'[n + 1].permissionType
                               = request[c].permissionType)
                 /\ choice \in {"deny", "dismiss"} => GrantsUnchanged
                 /\ settings.auditLog => Len(appended') = 1
                 /\ \A i \in DOMAIN appended' :
                        appended'[i] = IF choice \in {"deny", "dismiss"}
                                       THEN AuditEntry(FALSE, "denied by user", Undefined)
                                       ELSE AuditEntry(TRUE, "granted", <<choice>>)]_vars

\* The user allowed for the session while the durable store held a grant:
\* the session map got the grant and the entry names the scope.
C31_Witness ==
    \E c \in Calls :
        /\ pc[c] = "done"
        /\ prompted[c]
        /\ outcome[c] = "true"
        /\ appended = <<AuditEntry(TRUE, "granted", <<"session">>)>>
        /\ getPermissionKey(request[c].filePath, request[c].permissionType)
               \in DOMAIN sessionPermissions
        /\ Len(workspaceState) = 1

\* The grant lookup of the call that begins finds nothing to reuse: no
\* record, or an expired one.
NothingToReuse(c) ==
    LET found == findExistingPermission(sessionPermissions, workspaceState,
                     request'[c].filePath, request'[c].permissionType)
    IN  found = <<>> \/ isPermissionExpired(found[1], now)

\* The places in the allow list of the patterns that match the path of the
\* call that begins, as given or normalized.
AllowHits(c) ==
    {i \in DOMAIN settings.allowedPaths :
        \/ minimatch(validation'[c].normalizedPath, settings.allowedPaths[i])
        \/ minimatch(request'[c].filePath, settings.allowedPaths[i])}

\* C32: a request that reaches the allow rule and matches a pattern of the
\* allow list returns true without the quick pick; the durable store gains
\* one workspace grant for it and the session map is left alone; the audit
\* entry (one when the audit log is on) records the first pattern of the
\* list that matches.
C32_AllowPatternGrants ==
    [][\A c \in Calls :
          (/\ ReachesGrantLookup(c)
           /\ NothingToReuse(c)
           /\ AllowHits(c) # {})
          => LET n == Len(workspaceState)
                 first == CHOOSE i \in AllowHits(c) : \A j \in AllowHits(c) : i <= j
             IN  /\ pc'[c] = "done"
                 /\ outcome'[c] = "true"
                 /\ ~prompted'[c]
                 /\ sessionPermissions' = sessionPermissions
                 /\ Len(workspaceState') = n + 1
                 /\ SubSeq(workspaceState', 1, n) = workspaceState
                 /\ workspaceState'[n + 1]
                        = [filePath |-> request'[c].filePath,
                           permissionType |-> request'[c].permissionType,
                           scope |-> "workspace", expiration |-> NoExpiration,
                           autoGranted |-> FALSE]
                 /\ settings.auditLog => Len(appended') = 1
                 /\ \A i \in DOMAIN appended' :
                        appended'[i] = AuditEntry(TRUE, "auto-granted (allowed pattern)",
                                                  settings.allowedPaths[first])]_vars

\* /etc/hosts matches the first and the second pattern of the allow list;
\* it was granted, stored, and the entry names the first.
C32_Witness ==
    \E c \in Calls :
        /\ pc[c] = "done"
        /\ request[c].filePath = PathHosts
        /\ ~prompted[c]
        /\ outcome[c] = "true"
        /\ minimatch(PathHosts, GlobEtc)
        /\ appended = <<AuditEntry(TRUE, "auto-granted (allowed pattern)", GlobHosts)>>
        /\ \E i \in DOMAIN workspaceState :
               workspaceState[i].filePath = PathHosts /\ workspaceState[i].scope = "workspace"

\* C33: in danger mode a request that no earlier rule settles (it reaches
\* the grant lookup, finds nothing to reuse, matches no allow pattern and is
\* not granted as a safe path) returns true without the quick pick; the
\* session map holds a session grant for it that expires sessionTimeout
\* after now, and the durable store is left alone.
C33_DangerModeSessionGrant ==
    [][\A c \in Calls :
          (/\ ReachesGrantLookup(c)
           /\ NothingToReuse(c)
           /\ validation'[c].matchesAllowedPattern = Undefined
           /\ ~(settings.autoGrantSafePaths /\ SafePathTable[request'[c].filePath])
           /\ settings.permissionLevel = "danger-mode")
          => LET key == getPermissionKey(request'[c].filePath, request'[c].permissionType)
             IN  /\ pc'[c] = "done"
                 /\ outcome'[c] = "true"
                 /\ ~prompted'[c]
                 /\ workspaceState' = workspaceState
                 /\ DOMAIN sessionPermissions' = DOMAIN sessionPermissions \cup {key}
                 /\ sessionPermissions'[key]
                        = [filePath |-> request'[c].filePath,
                           permissionType |-> request'[c].permissionType,
                           scope |-> "session",
                           expiration |-> now + settings.sessionTimeout,
                           autoGranted |-> TRUE]
                 /\ \A k \in DOMAIN sessionPermissions \ {key} :
                        sessionPermissions'[k] = sessionPermissions[k]]_vars

\* Danger mode granted /etc/hosts after the clock had moved: the grant sits
\* in the session map and expires sessionTimeout later.
C33_Witness ==
    \E c \in Calls :
        /\ pc[c] = "done"
        /\ outcome[c] = "true"
        /\ appended = <<AuditEntry(TRUE, "auto-granted (danger mode)", Undefined)>>
        /\ now > 0
        /\ LET key == getPermissionKey(request[c].filePath, request[c].permissionType)
           IN  /\ key \in DOMAIN sessionPermissions
               /\ sessionPermissions[key].expiration = now + settings.sessionTimeout

\* C34: the sweep leaves in the session map the grants that have not
\* expired, unchanged and under their keys, and in the durable store the
\* records that have not expired, unchanged and in their order; every
\* expired grant is gone from both.
C34_SweepRemovesExpiredOnly ==
    [][lastCall'.method = "cleanupExpiredPermissions"
       => LET live(p) == ~isPermissionExpired(p, now)
          IN  /\ DOMAIN sessionPermissions'
                     = {k \in DOMAIN sessionPermissions : live(sessionPermissions[k])}
              /\ \A k \in DOMAIN sessionPermissions' :
                     sessionPermissions'[k] = sessionPermissions[k]
              /\ workspaceState' = SelectSeq(workspaceState, live)
              /\ now' = now]_vars

\* The sweep took the expired grant out of a session map that also held a
\* grant still running, and kept that one.
C34_Witness ==
    /\ lastCall.method = "cleanupExpiredPermissions"
    /\ lastCall.removed = <<1, 0>>
    /\ Cardinality(DOMAIN sessionPermissions) = 1
    /\ \A k \in DOMAIN sessionPermissions :
           ~isPermissionExpired(sessionPermissions[k], now)

\* C35: while the storage holds a sync state, a step of a call takes a name
\* out of the stored list of active servers only when the call is
\* toggleServer(name, false) or a setSyncAll: a call made before initialize
\* does not put the default state in the place of the stored one.
C35_StoredStateNotReset ==
    [][(lastStep'.op # "none" /\ ~IsNullState(storedSyncState))
       => \A name \in ServerNames :
              (/\ ArrayIncludes(storedSyncState.activeCliServers, name)
               /\ ~ArrayIncludes(storedSyncState'.activeCliServers, name))
              => LET t == task'[lastStep'.caller]
                 IN  \/ t.op = "setSyncAll"
                     \/ (t.op = "toggleServer" /\ t.serverName = name /\ ~t.flag)]_vars

\* C36: a refreshCLIServers call that finds the file as the last refresh
\* recorded it leaves every CLI entry of getAllServers' list with the active
\* flag it had: an entry toggled off stays off, also while syncAll is on.
C36_RefreshKeepsFlags ==
    [][\A c \in Callers :
          (/\ RefreshRuns(c)
           /\ ~readCLIConfig(cliFile).isNull
           /\ cliFile.hasServers
           /\ ~IsNullState(syncState)
           /\ syncState.cliConfigHash = calculateConfigHash(readCLIConfig(cliFile)))
          => LET before == getAllServers(cliServers, extensionServers)
                 after == getAllServers(cliServers', extensionServers')
             IN  \A i \in DOMAIN before :
                     before[i].source = "cli"
                     => \E j \in DOMAIN after :
                            /\ after[j].name = before[i].name
                            /\ after[j].source = "cli"
                            /\ after[j].isActive = before[i].isActive]_vars

\* The names of the CLI records of getAllServers' list, in its order.
CliNames(servers, extension) ==
    LET view == getAllServers(servers, extension)
    IN  SelectSeq([i \in DOMAIN view |-> IF view[i].source = "cli" THEN view[i].name ELSE ""],
                  LAMBDA n : n # "")

\* C37: when refreshCLIServers has read a well-formed file, the CLI records
\* of getAllServers' list are the servers the file defines, one record a
\* name, whatever names the list of active servers holds; and no step of a
\* toggleServer call adds or removes a CLI record.
C37_ViewNamesFollowSource ==
    [][/\ \A c \in Callers :
             (RefreshRuns(c) /\ ~MissingOrMalformed(cliFile))
             => LET names == CliNames(cliServers', extensionServers')
                IN  /\ {names[i] : i \in DOMAIN names} = DefinedNames(cliFile)
                    /\ Len(names) = Cardinality(DefinedNames(cliFile))
       /\ lastStep'.op = "toggleServer"
              => CliNames(cliServers', extensionServers')
                     = CliNames(cliServers, extensionServers)]_vars

\* A refresh read a file that defines a alone while b was in the list of
\* active servers: the list has a record for a and none for b.
C37_Witness ==
    /\ lastStep.op = "refreshCLIServers"
    /\ lastStep.mapped
    /\ cliFile = FileA
    /\ ~IsNullState(syncState)
    /\ ArrayIncludes(syncState.activeCliServers, "b")
    /\ CliNames(cliServers, extensionServers) = <<"a">>

\* Some store holds a grant of this permission type for this path.
HasGrantFor(filePath, permissionType) ==
    \/ \E i \in DOMAIN workspaceState :
           /\ workspaceState[i].filePath = filePath
           /\ workspaceState[i].permissionType = permissionType
    \/ \E k \in DOMAIN sessionPermissions :
           /\ sessionPermissions[k].filePath = filePath
           /\ sessionPermissions[k].permissionType = permissionType

\* The step is one of call c: it decides the request or takes the answer.
StepOf(c) == pc[c] \in {"idle", "dialog"} /\ pc'[c] # pc[c]

\* C38: a request is granted as the reuse of an existing grant only when a
\* store holds a grant of the requested permission type for the path (a read
\* grant does not answer a write request), and a step of a call leaves the
\* grants of every other path or permission type as they were, in both
\* stores.
C38_GrantsKeptApart ==
    [][\A c \in Calls :
          /\ (/\ Begins(c)
              /\ appended' = <<AuditEntry(TRUE, "auto-granted (existing permission)",
                                          Undefined)>>)
             => HasGrantFor(request'[c].filePath, request'[c].permissionType)
          /\ StepOf(c)
             => LET r == request'[c]
                    other(p) == p.filePath # r.filePath
                                \/ p.permissionType # r.permissionType
                IN  /\ \A k \in DOMAIN sessionPermissions :
                           other(sessionPermissions[k])
                           => (/\ k \in DOMAIN sessionPermissions'
                               /\ sessionPermissions'[k] = sessionPermissions[k])
                    /\ \A k \in DOMAIN sessionPermissions' :
                           other(sessionPermissions'[k]) => k \in DOMAIN sessionPermissions
                    /\ SelectSeq(workspaceState', other)
                           = SelectSeq(workspaceState, other)]_vars

\* A write request for /etc/hosts waits at the quick pick while the stores
\* hold a read grant for /etc/hosts.
C38_Witness ==
    \E c \in Calls :
        /\ pc[c] = "dialog"
        /\ request[c] = [filePath |-> PathHosts, permissionType |-> "write"]
        /\ HasGrantFor(PathHosts, "read")
        /\ ~HasGrantFor(PathHosts, "write")

\* C39: routeCommand answers 'ui' for a known command that has a UI
\* handler, and 'terminal' for a command that is not known and that the
\* detected CLI offers.
C39_KnownUiCommandsRouted ==
    routed.handler # "none"
    => /\ (/\ routed.commandName \in KnownNames
           /\ KnownCommand(routed.commandName).hasUIHandler)
          => routed.handler = "ui"
       /\ (/\ routed.commandName \notin KnownNames
           /\ routed.detected
           /\ routed.commandName \in cliCapabilities.availableCommands)
          => routed.handler = "terminal"

====
